---- MODULE Spec2Model ----
(***************************************************************************)
(* Model of grido (src/src/main.rs): the tile chemistry (TileType), the    *)
(* Block geometry and explosion resolution, the move/drop part of the      *)
(* play loop, and the line compositor (Grid).                              *)
(*                                                                         *)
(* A TileType is a record [k, n]: k is the variant, n its u8 parameter     *)
(* (for Flask/Spillage the liquid, Acid = 0, Glue = 1; 0 for variants      *)
(* without a parameter).  Option<TileType>::None is NoTile.                *)
(* A Block is a record [x, y, tiles] whose tiles are a sequence (the Vec)  *)
(* of <<dx, dy, tt>>.                                                      *)
(***************************************************************************)
EXTENDS Integers, Sequences, FiniteSets, TLC

VARIABLES pg, blk, next, score, multiplier, pc, last, grid

vars == <<pg, blk, next, score, multiplier, pc, last, grid>>

----------------------------------------------------------------------------
(* Bounds of the model *)

\* largest width of a generated rectangle of tiles
MaxW == 7
\* largest height of a generated rectangle of tiles
MaxH == 5
\* largest number of tiles of a generated rectangle
MaxTiles == 25

\* largest column of the anchor of the moving block
MaxX == 3
\* largest row of the anchor of the moving block
MaxY == 3
\* largest column of the anchor of the falling piece in the play loop
MaxGameX == 2
\* largest row of the anchor of the falling piece in the play loop
MaxGameY == 2
\* largest number of charges of a colliding Killer
MaxKiller == 3
\* largest shield number of the tiles of a square that is worn down
MaxShield == 3

\* largest number of half hundreds in the score a tile type is drawn for
MaxScoreSteps == 60

\* largest number of consecutive turns of a piece
MaxTurns == 4

\* width and height of the Grid that is painted on (it has (w+1)*(h+1)
\* Fields)
GridW == 3
GridH == 3
\* largest width and height of a cleared rectangle
MaxClear == 4
\* largest length of a painted wall
MaxWall == 3

\* largest column and row of the anchor of the falling piece in the play
\* loop with the upper border in reach (the smallest column is 1, the
\* smallest row 0, on the border)
MaxWideX == 3
MaxWideY == 2

\* largest score whose level is computed
MaxScore == 1100
\* largest number of Minus tiles of a playfield about to explode
MaxMinus == 5
\* largest multiplier at the beginning of a round
MaxMult == 3

----------------------------------------------------------------------------
(* enum LiquidType, enum TileType *)

Acid == 0
Glue == 1

NoTile == [k |-> "None", n |-> 0]

Plain(n) == [k |-> "Plain", n |-> n]
Permanent == [k |-> "Permanent", n |-> 0]
Killer(n) == [k |-> "Killer", n |-> n]
Picker == [k |-> "Picker", n |-> 0]
Centerpiece(n) == [k |-> "Centerpiece", n |-> n]
Whopper(n) == [k |-> "Whopper", n |-> n]
Flask(l) == [k |-> "Flask", n |-> l]
Spillage(l) == [k |-> "Spillage", n |-> l]
Plus == [k |-> "Plus", n |-> 0]
Minus == [k |-> "Minus", n |-> 0]

\* u8 subtraction n - 1 (wrapping build)
Dec8(n) == (n + 255) % 256

(* enum ExplodeAction *)
XaRemove == [a |-> "Remove"]
XaConvert(tt) == [a |-> "Convert", tt |-> tt]
XaSpill(l) == [a |-> "Spill", l |-> l]
XaPlus == [a |-> "Plus"]
XaMinus == [a |-> "Minus"]
XaComplex(a1, a2) == [a |-> "Complex", a1 |-> a1, a2 |-> a2]

\* TileType::drop returning every tile as it is
TileType_drop_Keep(tt) == tt

\* TileType::drop (always Some)
TileType_drop(tt) ==
  IF tt.k = "Killer" THEN Plain(0) ELSE tt

\* TileType::explode with a shield tile removed at once
TileType_explode_ShieldLost(tt) ==
  CASE tt.k = "Plain" -> XaRemove
    [] tt.k = "Centerpiece" /\ tt.n = 1 -> XaRemove
    [] tt.k = "Centerpiece" /\ tt.n # 1 -> XaConvert(Centerpiece(Dec8(tt.n)))
    [] tt.k = "Whopper" -> XaConvert(Centerpiece(tt.n))
    [] tt.k = "Flask" -> XaSpill(tt.n)
    [] tt.k = "Plus" -> XaComplex(XaRemove, XaPlus)
    [] tt.k = "Minus" -> XaComplex(XaRemove, XaMinus)
    [] OTHER -> XaRemove

\* TileType::explode with Minus answering like Plus
TileType_explode_MinusAsPlus(tt) ==
  CASE tt.k = "Plain" /\ tt.n = 0 -> XaRemove
    [] tt.k = "Plain" /\ tt.n # 0 -> XaConvert(Plain(Dec8(tt.n)))
    [] tt.k = "Centerpiece" /\ tt.n = 1 -> XaRemove
    [] tt.k = "Centerpiece" /\ tt.n # 1 -> XaConvert(Centerpiece(Dec8(tt.n)))
    [] tt.k = "Whopper" -> XaConvert(Centerpiece(tt.n))
    [] tt.k = "Flask" -> XaSpill(tt.n)
    [] tt.k = "Plus" -> XaComplex(XaRemove, XaPlus)
    [] tt.k = "Minus" -> XaComplex(XaRemove, XaPlus)
    [] OTHER -> XaRemove

\* TileType::explode counting a Centerpiece down from 1 as from any count
TileType_explode_NoFloor(tt) ==
  CASE tt.k = "Plain" /\ tt.n = 0 -> XaRemove
    [] tt.k = "Plain" /\ tt.n # 0 -> XaConvert(Plain(Dec8(tt.n)))
    [] tt.k = "Centerpiece" -> XaConvert(Centerpiece(Dec8(tt.n)))
    [] tt.k = "Whopper" -> XaConvert(Centerpiece(tt.n))
    [] tt.k = "Flask" -> XaSpill(tt.n)
    [] tt.k = "Plus" -> XaComplex(XaRemove, XaPlus)
    [] tt.k = "Minus" -> XaComplex(XaRemove, XaMinus)
    [] OTHER -> XaRemove

\* TileType::explode
TileType_explode(tt) ==
  CASE tt.k = "Plain" /\ tt.n = 0 -> XaRemove
    [] tt.k = "Plain" /\ tt.n # 0 -> XaConvert(Plain(Dec8(tt.n)))
    [] tt.k = "Centerpiece" /\ tt.n = 1 -> XaRemove
    [] tt.k = "Centerpiece" /\ tt.n # 1 -> XaConvert(Centerpiece(Dec8(tt.n)))
    [] tt.k = "Whopper" -> XaConvert(Centerpiece(tt.n))
    [] tt.k = "Flask" -> XaSpill(tt.n)
    [] tt.k = "Plus" -> XaComplex(XaRemove, XaPlus)
    [] tt.k = "Minus" -> XaComplex(XaRemove, XaMinus)
    [] OTHER -> XaRemove

\* TileType::is_plain
is_plain(tt) == tt.k \in {"Plain", "Flask", "Plus", "Minus"}

\* TileType::is_solid
is_solid(tt) == tt.k # "Spillage"

\* TileType::explodes with a plain tile exploding every tile
explodes_PlainTakesAll(tt1, tt2) ==
  CASE is_plain(tt1) -> TRUE
    [] tt1.k = "Centerpiece" ->
         IF tt2.k = "Centerpiece" THEN TRUE ELSE is_plain(tt2)
    [] tt1.k = "Whopper" ->
         IF tt2.k \in {"Centerpiece", "Whopper"} THEN TRUE ELSE is_plain(tt2)
    [] OTHER -> FALSE

\* TileType::explodes with a plain tile exploding Centerpieces as well
explodes_PlainTakesCentre(tt1, tt2) ==
  CASE is_plain(tt1) -> is_plain(tt2) \/ tt2.k = "Centerpiece"
    [] tt1.k = "Centerpiece" ->
         IF tt2.k = "Centerpiece" THEN TRUE ELSE is_plain(tt2)
    [] tt1.k = "Whopper" ->
         IF tt2.k \in {"Centerpiece", "Whopper"} THEN TRUE ELSE is_plain(tt2)
    [] OTHER -> FALSE

\* TileType::explodes
explodes(tt1, tt2) ==
  CASE is_plain(tt1) -> is_plain(tt2)
    [] tt1.k = "Centerpiece" ->
         IF tt2.k = "Centerpiece" THEN TRUE ELSE is_plain(tt2)
    [] tt1.k = "Whopper" ->
         IF tt2.k \in {"Centerpiece", "Whopper"} THEN TRUE ELSE is_plain(tt2)
    [] OTHER -> FALSE

\* TileType::collide with a Killer keeping its charges
TileType_collide_KillerStays(t1, t2) ==
  IF t2 = Spillage(Acid) THEN <<NoTile, NoTile>>
  ELSE IF t2 = Spillage(Glue) THEN <<NoTile, TileType_drop(t1)>>
  ELSE IF t1.k = "Picker" THEN <<TileType_drop(t2), NoTile>>
  ELSE IF t2.k = "Picker" THEN <<NoTile, TileType_drop(t1)>>
  ELSE IF t1.k = "Killer" /\ t1.n = 1 THEN <<NoTile, NoTile>>
  ELSE IF t1.k = "Killer" THEN <<t1, NoTile>>
  ELSE IF t2.k = "Killer" /\ t2.n = 1 THEN <<NoTile, NoTile>>
  ELSE IF t2.k = "Killer" THEN <<NoTile, t2>>
  ELSE <<t1, t2>>

\* TileType::collide with Glue holding the tile as it is
TileType_collide_GlueKeeps(t1, t2) ==
  IF t2 = Spillage(Acid) THEN <<NoTile, NoTile>>
  ELSE IF t2 = Spillage(Glue) THEN <<NoTile, t1>>
  ELSE IF t1.k = "Picker" THEN <<TileType_drop(t2), NoTile>>
  ELSE IF t2.k = "Picker" THEN <<NoTile, TileType_drop(t1)>>
  ELSE IF t1.k = "Killer" /\ t1.n = 1 THEN <<NoTile, NoTile>>
  ELSE IF t1.k = "Killer" THEN <<Killer(Dec8(t1.n)), NoTile>>
  ELSE IF t2.k = "Killer" /\ t2.n = 1 THEN <<NoTile, NoTile>>
  ELSE IF t2.k = "Killer" THEN <<NoTile, Killer(Dec8(t2.n))>>
  ELSE <<t1, t2>>

\* TileType::collide with a Picker of t1 leaving the tile where it was
TileType_collide_PickerLeaves(t1, t2) ==
  IF t2 = Spillage(Acid) THEN <<NoTile, NoTile>>
  ELSE IF t2 = Spillage(Glue) THEN <<NoTile, TileType_drop(t1)>>
  ELSE IF t1.k = "Picker" THEN <<NoTile, TileType_drop(t2)>>
  ELSE IF t2.k = "Picker" THEN <<NoTile, TileType_drop(t1)>>
  ELSE IF t1.k = "Killer" /\ t1.n = 1 THEN <<NoTile, NoTile>>
  ELSE IF t1.k = "Killer" THEN <<Killer(Dec8(t1.n)), NoTile>>
  ELSE IF t2.k = "Killer" /\ t2.n = 1 THEN <<NoTile, NoTile>>
  ELSE IF t2.k = "Killer" THEN <<NoTile, Killer(Dec8(t2.n))>>
  ELSE <<t1, t2>>

\* TileType::collide: <<what is left of t1, what is left of t2>>
TileType_collide(t1, t2) ==
  IF t2 = Spillage(Acid) THEN <<NoTile, NoTile>>
  ELSE IF t2 = Spillage(Glue) THEN <<NoTile, TileType_drop(t1)>>
  ELSE IF t1.k = "Picker" THEN <<TileType_drop(t2), NoTile>>
  ELSE IF t2.k = "Picker" THEN <<NoTile, TileType_drop(t1)>>
  ELSE IF t1.k = "Killer" /\ t1.n = 1 THEN <<NoTile, NoTile>>
  ELSE IF t1.k = "Killer" THEN <<Killer(Dec8(t1.n)), NoTile>>
  ELSE IF t2.k = "Killer" /\ t2.n = 1 THEN <<NoTile, NoTile>>
  ELSE IF t2.k = "Killer" THEN <<NoTile, Killer(Dec8(t2.n))>>
  ELSE <<t1, t2>>

\* TileType::collides
TileType_collides(t1, t2) == TRUE

SHAPE25 ==
  << <<-2, -2>>, <<-1, -2>>, <<0, -2>>, <<1, -2>>, <<2, -2>>,
     <<-2, -1>>, <<-1, -1>>, <<0, -1>>, <<1, -1>>, <<2, -1>>,
     <<-2,  0>>, <<-1,  0>>, <<0,  0>>, <<1,  0>>, <<2,  0>>,
     <<-2,  1>>, <<-1,  1>>, <<0,  1>>, <<1,  1>>, <<2,  1>>,
     <<-2,  2>>, <<-1,  2>>, <<0,  2>>, <<1,  2>>, <<2,  2>> >>

\* the 3x3 shape without its centre
SHAPE9_NoCentre ==
  << <<-1, -1>>, <<0, -1>>, <<1, -1>>,
     <<-1,  0>>,             <<1,  0>>,
     <<-1,  1>>, <<0,  1>>, <<1,  1>> >>

SHAPE9 ==
  << <<-1, -1>>, <<0, -1>>, <<1, -1>>,
     <<-1,  0>>, <<0,  0>>, <<1,  0>>,
     <<-1,  1>>, <<0,  1>>, <<1,  1>> >>

\* TileType::explode_shape giving every tile the 3x3
explode_shape_Always9(tt) == SHAPE9

\* TileType::explode_shape
explode_shape(tt) == IF tt.k = "Whopper" THEN SHAPE25 ELSE SHAPE9

\* TileType::bonus
bonus(tt) ==
  CASE tt.k = "Plain" -> tt.n + 1
    [] tt.k = "Centerpiece" -> 10 * tt.n
    [] tt.k = "Whopper" -> 30
    [] OTHER -> 1

\* fn level: the loop running while base <= score
RECURSIVE LevelLoop_Inclusive(_, _, _)
LevelLoop_Inclusive(base, lvl, sc) ==
  IF base <= sc
  THEN LevelLoop_Inclusive(base + ((lvl + 1) % 256) * 100, (lvl + 1) % 256, sc)
  ELSE lvl

\* fn level: the loop, lvl a u8
RECURSIVE LevelLoop(_, _, _)
LevelLoop(base, lvl, sc) ==
  IF base < sc
  THEN LevelLoop(base + ((lvl + 1) % 256) * 100, (lvl + 1) % 256, sc)
  ELSE lvl

\* fn level with the loop running while base <= score
level_Inclusive(sc) == LevelLoop_Inclusive(0, 0, sc)

\* fn level
level(sc) == LevelLoop(0, 0, sc)

\* TileType::new_random with the Killer let in a level early
TileType_new_random_KillerEarly(sc) ==
  LET lvl == level(sc)
  IN  {Plain(0), Picker}
      \cup (IF lvl >= 1 THEN {Minus, Plus} ELSE {})
      \cup (IF lvl >= 2 THEN {Plain(1 + r) : r \in 0..(lvl - 1)} ELSE {})
      \cup (IF lvl >= 3 THEN {Flask(Acid), Flask(Glue)} ELSE {})
      \cup (IF lvl >= 3 THEN {Killer(1 + r) : r \in 0..(lvl \div 8)} ELSE {})
      \cup (IF lvl >= 5 THEN {Centerpiece(1 + r) : r \in 0..(lvl \div 4)}
            ELSE {})
      \cup (IF lvl >= 6 THEN {Whopper(1 + r) : r \in 0..(lvl \div 4)} ELSE {})
      \cup (IF lvl >= 8 THEN {Permanent} ELSE {})

\* TileType::new_random: the tile types it can return for this score
TileType_new_random(sc) ==
  LET lvl == level(sc)
  IN  {Plain(0), Picker}
      \cup (IF lvl >= 1 THEN {Minus, Plus} ELSE {})
      \cup (IF lvl >= 2 THEN {Plain(1 + r) : r \in 0..(lvl - 1)} ELSE {})
      \cup (IF lvl >= 3 THEN {Flask(Acid), Flask(Glue)} ELSE {})
      \cup (IF lvl >= 4 THEN {Killer(1 + r) : r \in 0..(lvl \div 8)} ELSE {})
      \cup (IF lvl >= 5 THEN {Centerpiece(1 + r) : r \in 0..(lvl \div 4)}
            ELSE {})
      \cup (IF lvl >= 6 THEN {Whopper(1 + r) : r \in 0..(lvl \div 4)} ELSE {})
      \cup (IF lvl >= 8 THEN {Permanent} ELSE {})

----------------------------------------------------------------------------
(* struct Block *)

MkBlock(x, y, tiles) == [x |-> x, y |-> y, tiles |-> tiles]

\* Block::new
Block_new == MkBlock(0, 0, <<>>)

\* Block::new_from_shape with the tile types tts drawn by new_random
new_from_shape(shape, tts) ==
  MkBlock(0, 0,
          [i \in 1..Len(shape) |-> <<shape[i][1], shape[i][2], tts[i]>>])

\* the seven shapes of Block::new_random, in the order of its match
shape_1x1 == << <<0, 0>> >>
shape_1x2 == << <<0, -1>>, <<0, 0>> >>
shape_1x3 == << <<0, -1>>, <<0, 0>>, <<0, 1>> >>
shape_8 == << <<0, -1>>, <<0, 1>> >>
shape_d == << <<-1, -1>>, <<0, 0>> >>
shape_l == << <<-1, 0>>, <<0, 0>>, <<0, -1>> >>
shape_castle == << <<0, -1>>, <<-1, 0>>, <<1, 0>> >>

Shapes ==
  <<shape_1x1, shape_1x2, shape_1x3, shape_8, shape_d, shape_l, shape_castle>>

\* Block::new_border
new_border(w, h) ==
  MkBlock(0, 0,
          [i \in 1..(2 * (w - 1)) |->
             IF i % 2 = 1 THEN <<(i - 1) \div 2, 0, Permanent>>
             ELSE <<(i - 1) \div 2 + 1, h - 1, Permanent>>]
          \o
          [i \in 1..(2 * (h - 1)) |->
             IF i % 2 = 1 THEN <<0, (i - 1) \div 2 + 1, Permanent>>
             ELSE <<w - 1, (i - 1) \div 2, Permanent>>])

\* play: the size of the playground
pgw == 16
pgh == 12

\* play: the border block bd
bd == new_border(pgw, pgh)

\* Block::at: the first tile of the Vec at the absolute position (x, y);
\* x == x0 + dx is tested as dx == x - x0
at(b, x, y) ==
  LET t == b.tiles
      dx == x - b.x
      dy == y - b.y
  IN  IF \E i \in 1..Len(t) : t[i][1] = dx /\ t[i][2] = dy
      THEN t[CHOOSE i \in 1..Len(t) :
               /\ t[i][1] = dx /\ t[i][2] = dy
               /\ \A j \in 1..(i - 1) : t[j][1] # dx \/ t[j][2] # dy][3]
      ELSE NoTile

\* Block::turned with the row of a tile taken from the sum of its offsets
turned_Sheared(b) ==
  MkBlock(b.x, b.y,
          [i \in 1..Len(b.tiles) |->
             <<b.tiles[i][2], 0 - b.tiles[i][1] - b.tiles[i][2],
               b.tiles[i][3]>>])

\* Block::turned
turned(b) ==
  MkBlock(b.x, b.y,
          [i \in 1..Len(b.tiles) |->
             <<b.tiles[i][2], 0 - b.tiles[i][1], b.tiles[i][3]>>])

\* Block::moved
moved(b, dx, dy) == MkBlock(b.x + dx, b.y + dy, b.tiles)

\* Block::moved_to
moved_to(b, x, y) == moved(b, x - b.x, y - b.y)

\* Block::intersects that looks up the offsets of the tiles of self
intersects_Offsets(b, blk2) ==
  \E i \in 1..Len(b.tiles) :
     at(blk2, b.tiles[i][1], b.tiles[i][2]) # NoTile

\* Block::intersects
intersects(b, blk2) ==
  \E i \in 1..Len(b.tiles) :
     at(blk2, b.x + b.tiles[i][1], b.y + b.tiles[i][2]) # NoTile

\* Block::collides_with
collides_with(b, with) ==
  \E i \in 1..Len(b.tiles) :
     LET tt2 == at(with, b.x + b.tiles[i][1], b.y + b.tiles[i][2])
     IN  tt2 # NoTile /\ TileType_collides(b.tiles[i][3], tt2)

\* the retain() of Block::collide: drop the tiles at absolute (xx1, yy1)
RetainNotAt(tiles, x2, y2, xx1, yy1) ==
  LET keep(t) == x2 + t[1] # xx1 \/ y2 + t[2] # yy1
  IN  SelectSeq(tiles, keep)

\* one iteration of the loop of Block::collide that pushes the new tile of
\* blk2 with its absolute position as the offset
CollideStep_NoRebase(acc, b1, blk2, i) ==
  LET dx1 == b1.tiles[i][1]
      dy1 == b1.tiles[i][2]
      tt1 == b1.tiles[i][3]
      xx1 == b1.x + dx1
      yy1 == b1.y + dy1
      tt2 == at(blk2, xx1, yy1)
  IN  IF tt2 # NoTile
      THEN IF TileType_collides(tt1, tt2)
           THEN LET nt == TileType_collide(tt1, tt2)
                    kept == RetainNotAt(acc.rtiles2, blk2.x, blk2.y, xx1, yy1)
                IN  [rtiles1 |-> IF nt[1] # NoTile
                                 THEN Append(acc.rtiles1, <<dx1, dy1, nt[1]>>)
                                 ELSE acc.rtiles1,
                     rtiles2 |-> IF nt[2] # NoTile
                                 THEN Append(kept, <<xx1, yy1, nt[2]>>)
                                 ELSE kept]
           ELSE [acc EXCEPT !.rtiles1 = Append(@, <<dx1, dy1, tt1>>)]
      ELSE [acc EXCEPT !.rtiles1 = Append(@, <<dx1, dy1, tt1>>)]

\* one iteration of the loop of Block::collide over tiles1
CollideStep(acc, b1, blk2, i) ==
  LET dx1 == b1.tiles[i][1]
      dy1 == b1.tiles[i][2]
      tt1 == b1.tiles[i][3]
      xx1 == b1.x + dx1
      yy1 == b1.y + dy1
      tt2 == at(blk2, xx1, yy1)
  IN  IF tt2 # NoTile
      THEN IF TileType_collides(tt1, tt2)
           THEN LET nt == TileType_collide(tt1, tt2)
                    kept == RetainNotAt(acc.rtiles2, blk2.x, blk2.y, xx1, yy1)
                IN  [rtiles1 |-> IF nt[1] # NoTile
                                 THEN Append(acc.rtiles1, <<dx1, dy1, nt[1]>>)
                                 ELSE acc.rtiles1,
                     rtiles2 |-> IF nt[2] # NoTile
                                 THEN Append(kept,
                                        <<xx1 - blk2.x, yy1 - blk2.y, nt[2]>>)
                                 ELSE kept]
           ELSE [acc EXCEPT !.rtiles1 = Append(@, <<dx1, dy1, tt1>>)]
      ELSE [acc EXCEPT !.rtiles1 = Append(@, <<dx1, dy1, tt1>>)]

RECURSIVE CollideLoop(_, _, _, _)
CollideLoop(acc, b1, blk2, i) ==
  IF i > Len(b1.tiles) THEN acc
  ELSE CollideLoop(CollideStep(acc, b1, blk2, i), b1, blk2, i + 1)

\* Block::collide: <<blk1 afterwards, blk2 afterwards>>
Block_collide(blk1, blk2) ==
  LET r == CollideLoop([rtiles1 |-> <<>>, rtiles2 |-> blk2.tiles],
                       blk1, blk2, 1)
  IN  <<MkBlock(blk1.x, blk1.y, r.rtiles1),
        MkBlock(blk2.x, blk2.y, r.rtiles2)>>

\* Block::drop pushing the tiles with the offsets they have in self
DropTiles_NoRebase(b, dest) ==
  [i \in 1..Len(b.tiles) |->
     <<b.tiles[i][1], b.tiles[i][2], TileType_drop(b.tiles[i][3])>>]

\* the tiles Block::drop pushes to dest: every tile's drop(), re-based
DropTiles(b, dest) ==
  [i \in 1..Len(b.tiles) |->
     <<b.tiles[i][1] + (b.x - dest.x), b.tiles[i][2] + (b.y - dest.y),
       TileType_drop(b.tiles[i][3])>>]

\* Block::drop testing the border only
Block_drop_BorderOnly(b, dest, border) ==
  IF intersects(b, border)
  THEN [ok |-> FALSE, dest |-> dest]
  ELSE [ok |-> TRUE,
        dest |-> MkBlock(dest.x, dest.y, dest.tiles \o DropTiles(b, dest))]

\* Block::drop: [ok |-> the returned bool, dest |-> dest afterwards]
Block_drop(b, dest, border) ==
  IF intersects(b, border) \/ intersects(b, dest)
  THEN [ok |-> FALSE, dest |-> dest]
  ELSE [ok |-> TRUE,
        dest |-> MkBlock(dest.x, dest.y, dest.tiles \o DropTiles(b, dest))]

----------------------------------------------------------------------------
(* Block::explode *)

\* Block::spill: the five entries pushed to spills
spill(x, y, liquid) ==
  << <<x, y, liquid>>, <<x, y + 1, liquid>>, <<x + 1, y, liquid>>,
     <<x, y - 1, liquid>>, <<x - 1, y, liquid>> >>

\* the inner loop of pass 1 passing over positions without a tile
Detonates_SkipAbsent(b, i) ==
  LET tt == b.tiles[i][3]
      shape == explode_shape(tt)
  IN  \A s \in 1..Len(shape) :
        LET tt2 == at(b, b.x + b.tiles[i][1] + shape[s][1],
                         b.y + b.tiles[i][2] + shape[s][2])
        IN  tt2 = NoTile \/ explodes(tt, tt2)

\* pass 1, inner loop: does tile i find its whole explode_shape matched
Detonates(b, i) ==
  LET tt == b.tiles[i][3]
      shape == explode_shape(tt)
  IN  \A s \in 1..Len(shape) :
        LET tt2 == at(b, b.x + b.tiles[i][1] + shape[s][1],
                         b.y + b.tiles[i][2] + shape[s][2])
        IN  tt2 # NoTile /\ explodes(tt, tt2)

\* pass 1: the sublist of tile i (absolute positions), empty after 'next
Sublist(b, i) ==
  LET shape == explode_shape(b.tiles[i][3])
  IN  IF Detonates(b, i)
      THEN [s \in 1..Len(shape) |->
              <<b.x + b.tiles[i][1] + shape[s][1],
                b.y + b.tiles[i][2] + shape[s][2]>>]
      ELSE <<>>

RECURSIVE KillListFrom(_, _)
KillListFrom(b, i) ==
  IF i > Len(b.tiles) THEN <<>>
  ELSE Sublist(b, i) \o KillListFrom(b, i + 1)

\* pass 1: the killlist
KillList(b) == KillListFrom(b, 1)

\* handle_xp_action: [d |-> returned i32, spills, rtiles afterwards]
RECURSIVE handle_xp_action(_, _, _, _, _)
handle_xp_action(xa, xx, yy, spills, rtiles) ==
  CASE xa.a = "Remove" -> [d |-> 0, spills |-> spills, rtiles |-> rtiles]
    [] xa.a = "Convert" ->
         [d |-> 0, spills |-> spills,
          rtiles |-> Append(rtiles, <<xx, yy, xa.tt>>)]
    [] xa.a = "Spill" ->
         [d |-> 0, spills |-> spills \o spill(xx, yy, xa.l),
          rtiles |-> rtiles]
    [] xa.a = "Plus" -> [d |-> 1, spills |-> spills, rtiles |-> rtiles]
    [] xa.a = "Minus" -> [d |-> 0 - 1, spills |-> spills, rtiles |-> rtiles]
    [] xa.a = "Complex" ->
         LET r1 == handle_xp_action(xa.a1, xx, yy, spills, rtiles)
             r2 == handle_xp_action(xa.a2, xx, yy, r1.spills, r1.rtiles)
         IN  [d |-> r1.d + r2.d, spills |-> r2.spills, rtiles |-> r2.rtiles]

\* pass 2 without the continue 'next2: one hit per kill-list entry
SweepStep_PerEntry(acc, b, kl, i) ==
  LET xx == b.tiles[i][1]
      yy == b.tiles[i][2]
      tt == b.tiles[i][3]
      n == Cardinality({k \in 1..Len(kl) :
                          b.x + xx = kl[k][1] /\ b.y + yy = kl[k][2]})
  IN  IF n > 0
      THEN LET r == handle_xp_action(TileType_explode(tt), xx, yy,
                                     acc.spills, acc.rtiles)
           IN  [exploded |-> Append(acc.exploded, <<xx, yy, tt>>),
                dmult |-> acc.dmult + r.d,
                hits |-> acc.hits + n * bonus(tt),
                spills |-> r.spills,
                rtiles |-> r.rtiles]
      ELSE [acc EXCEPT !.rtiles = Append(@, <<xx, yy, tt>>)]

\* pass 2, one iteration of 'next2 over self.tiles
SweepStep(acc, b, kl, i) ==
  LET xx == b.tiles[i][1]
      yy == b.tiles[i][2]
      tt == b.tiles[i][3]
  IN  IF \E k \in 1..Len(kl) : b.x + xx = kl[k][1] /\ b.y + yy = kl[k][2]
      THEN LET r == handle_xp_action(TileType_explode(tt), xx, yy,
                                     acc.spills, acc.rtiles)
           IN  [exploded |-> Append(acc.exploded, <<xx, yy, tt>>),
                dmult |-> acc.dmult + r.d,
                hits |-> acc.hits + bonus(tt),
                spills |-> r.spills,
                rtiles |-> r.rtiles]
      ELSE [acc EXCEPT !.rtiles = Append(@, <<xx, yy, tt>>)]

RECURSIVE SweepLoop(_, _, _, _)
SweepLoop(acc, b, kl, i) ==
  IF i > Len(b.tiles) THEN acc
  ELSE SweepLoop(SweepStep(acc, b, kl, i), b, kl, i + 1)

\* pass 2: the sweep over all tiles
Sweep(b) ==
  SweepLoop([exploded |-> <<>>, dmult |-> 0, hits |-> 0,
             spills |-> <<>>, rtiles |-> <<>>], b, KillList(b), 1)

\* the loop over spills: self.at is given the offsets xx, yy as they are
RECURSIVE ApplySpills(_, _, _)
ApplySpills(b, spills, i) ==
  IF i > Len(spills) THEN b
  ELSE LET xx == spills[i][1]
           yy == spills[i][2]
       IN  IF at(b, xx, yy) = NoTile
           THEN ApplySpills(
                  MkBlock(b.x, b.y,
                          Append(b.tiles, <<xx, yy, Spillage(spills[i][3])>>)),
                  spills, i + 1)
           ELSE ApplySpills(b, spills, i + 1)

\* the bulk bonus computed as count / 9
BulkBonus_CountDiv(n) == IF n > 12 THEN n \div 9 ELSE 0

\* the bulk bonus without its threshold
BulkBonus_NoThreshold(n) == (n - 9) \div 9

\* the bulk bonus added to dmult at the end of Block::explode
BulkBonus(n) == IF n > 12 THEN (n - 9) \div 9 ELSE 0

\* Block::explode pushing a Spillage for every entry of spills
Block_explode_SpillAll(b) ==
  LET sw == Sweep(b)
      b2 == MkBlock(b.x, b.y,
                    sw.rtiles \o
                    [i \in 1..Len(sw.spills) |->
                       <<sw.spills[i][1], sw.spills[i][2],
                         Spillage(sw.spills[i][3])>>])
  IN  [self |-> b2,
       exploded |-> sw.exploded,
       hits |-> sw.hits,
       dmult |-> sw.dmult + BulkBonus(Len(sw.exploded))]

\* Block::explode: [self |-> the block afterwards, exploded, hits, dmult]
Block_explode(b) ==
  LET sw == Sweep(b)
      b2 == ApplySpills(MkBlock(b.x, b.y, sw.rtiles), sw.spills, 1)
  IN  [self |-> b2,
       exploded |-> sw.exploded,
       hits |-> sw.hits,
       dmult |-> sw.dmult + BulkBonus(Len(sw.exploded))]

----------------------------------------------------------------------------
(* Input blocks for the operations on one Block: a W x H rectangle of      *)
(* tiles filled with one tile type, in which the cells (1, 1) and (2, 2)   *)
(* may hold another tile type or no tile, placed at one of the anchors.    *)

Keep == [k |-> "Keep", n |-> 0]

Anchors == {<<0, 0>>, <<1, -1>>}

Fills == {Plain(0), Plain(1)}

CentreTiles ==
  {Keep, NoTile, Plain(2), Permanent, Killer(1), Picker, Centerpiece(1),
   Centerpiece(2), Whopper(1), Flask(Acid), Flask(Glue), Spillage(Acid),
   Plus, Minus}

SecondTiles ==
  {Keep, NoTile, Flask(Glue), Whopper(2), Minus, Plus, Centerpiece(1),
   Spillage(Glue)}

RectDims ==
  {d \in (1..MaxW) \X (1..MaxH) : d[1] * d[2] <= MaxTiles}

RectTiles(w, h, fill, c, e) ==
  LET cell(i) == <<(i - 1) % w, (i - 1) \div w>>
      tt(i) == IF cell(i) = <<1, 1>> /\ c # Keep THEN c
               ELSE IF cell(i) = <<2, 2>> /\ e # Keep THEN e
               ELSE fill
      full == [i \in 1..(w * h) |-> <<cell(i)[1], cell(i)[2], tt(i)>>]
      present(t) == t[3] # NoTile
  IN  SelectSeq(full, present)

RectBlocks ==
  {MkBlock(a[1], a[2], RectTiles(d[1], d[2], f, c, e)) :
     a \in Anchors, d \in RectDims, f \in Fills,
     c \in CentreTiles, e \in SecondTiles}

----------------------------------------------------------------------------
(* The line compositor (Grid).  A Pen is one of None, Thin, Thik; a Field  *)
(* is a record [f, c, dw]: f is the variant (FNone, FDecoration or         *)
(* FDrawing), c the char of a Decoration (its code point, 0 otherwise) and *)
(* dw the FieldDrawing of a Drawing (NoDrawing otherwise).  A Grid is a    *)
(* record [w, h, grid] whose grid is the Vec of (w+1)*(h+1) Fields; the    *)
(* Field of index idx of the Vec is grid[idx + 1].  A str is the sequence  *)
(* of the code points of its chars, a glyph the code point of its char.    *)

None == "None"
Thin == "Thin"
Thik == "Thik"
Pens == {None, Thin, Thik}

\* Pen::combine in which the pen painted last wins
Pen_combine_LastWins(p1, p2) ==
  IF p2 = None THEN p1 ELSE p2

\* Pen::combine(self, other)
Pen_combine(p1, p2) ==
  IF p1 = None THEN p2
  ELSE IF p2 = None THEN p1
  ELSE IF p1 = Thik \/ p2 = Thik THEN Thik
  ELSE Thin

Up == "Up"
Right == "Right"
Down == "Down"
Left == "Left"
Directions == {Up, Right, Down, Left}

MkDrawing(u, r, d, l) == [up |-> u, right |-> r, down |-> d, left |-> l]

NoDrawing == MkDrawing(None, None, None, None)

\* FieldDrawing::new_from(d, p)
FieldDrawing_new_from(d, p) ==
  MkDrawing(IF d = Up THEN p ELSE None, IF d = Right THEN p ELSE None,
            IF d = Down THEN p ELSE None, IF d = Left THEN p ELSE None)

\* FieldDrawing::combine(self, other)
FieldDrawing_combine(a, b) ==
  MkDrawing(Pen_combine(a.up, b.up), Pen_combine(a.right, b.right),
            Pen_combine(a.down, b.down), Pen_combine(a.left, b.left))

FNone == "None"
FDecoration == "Decoration"
FDrawing == "Drawing"

Field_None == [f |-> FNone, c |-> 0, dw |-> NoDrawing]
Field_Decoration(c) == [f |-> FDecoration, c |-> c, dw |-> NoDrawing]
Field_Drawing(dw) == [f |-> FDrawing, c |-> 0, dw |-> dw]

\* Grid::new(w, h)
Grid_new(w, h) ==
  [w |-> w, h |-> h, grid |-> [i \in 1..((w + 1) * (h + 1)) |-> Field_None]]

\* the two builds of the program: with and without overflow checks
Builds == {"debug", "release"}

\* Grid::field_idx(x, y): y as usize * (w + 1) as usize + x as usize.  A
\* negative i16 becomes 2^64 minus its magnitude, so that the product
\* overflows for a negative y (and w > 0) and the sum for a negative
\* operand whenever the exact value v is not negative: the debug build
\* panics then, the release build wraps to v.  A negative v is left as an
\* index near 2^64 (huge).
field_idx(g, x, y, build) ==
  LET v == y * (g.w + 1) + x
      mulOverflow == y < 0 /\ g.w + 1 > 1
      addOverflow == (x < 0 /\ y < 0) \/ ((x < 0 \/ y < 0) /\ v >= 0)
  IN  [panic |-> build = "debug" /\ (mulOverflow \/ addOverflow),
       huge |-> v < 0,
       idx |-> v]

\* Grid::field_mut(x, y): the index of the Field in the Vec, or a panic of
\* the index computation or of the bounds check of the Vec
field_mut(g, x, y, build) ==
  LET i == field_idx(g, x, y, build)
  IN  [panic |-> i.panic \/ i.huge \/ i.idx >= Len(g.grid), idx |-> i.idx]

\* *f = v for the Field f of index idx
SetField(g, idx, v) ==
  [g EXCEPT !.grid = [g.grid EXCEPT ![idx + 1] = v]]

\* the match of Grid::paint with a Drawing replaced like any other Field
PaintField_Overwrites(f, d, p) ==
  Field_Drawing(FieldDrawing_new_from(d, p))

\* the match of Grid::paint
PaintField(f, d, p) ==
  IF f.f = FDrawing
  THEN Field_Drawing(FieldDrawing_combine(f.dw, FieldDrawing_new_from(d, p)))
  ELSE Field_Drawing(FieldDrawing_new_from(d, p))

\* Grid::paint(x, y, d, p): the Grid it leaves, and whether it panicked
Grid_paint(g, x, y, d, p, build) ==
  LET m == field_mut(g, x, y, build)
  IN  IF m.panic THEN [panic |-> TRUE, g |-> g]
      ELSE [panic |-> FALSE,
            g |-> SetField(g, m.idx, PaintField(g.grid[m.idx + 1], d, p))]

\* the body of the loops of Grid::clear for one Field
ClearField(f, ex0, ex1, ey0, ey1) ==
  LET ex == ex0 \/ ex1
      ey == ey0 \/ ey1
      f1 == IF ~ex THEN f
            ELSE IF f.f = FDrawing
            THEN LET a == IF ~ey
                          THEN [f.dw EXCEPT !.down = None, !.up = None]
                          ELSE f.dw
                 IN  Field_Drawing(IF ex0 THEN [a EXCEPT !.right = None]
                                   ELSE [a EXCEPT !.left = None])
            ELSE Field_None
      f2 == IF ~ey THEN f1
            ELSE IF f1.f = FDrawing
            THEN LET a == IF ~ex
                          THEN [f1.dw EXCEPT !.left = None, !.right = None]
                          ELSE f1.dw
                 IN  Field_Drawing(IF ey0 THEN [a EXCEPT !.down = None]
                                   ELSE [a EXCEPT !.up = None])
            ELSE Field_None
  IN  IF ~ex /\ ~ey THEN Field_None ELSE f2

\* the loops of Grid::clear from the n-th Field on, columns outermost
RECURSIVE ClearLoop(_, _, _, _, _, _, _)
ClearLoop(g, x, y, w, h, n, build) ==
  IF n >= w * h THEN [panic |-> FALSE, g |-> g]
  ELSE LET xx == x + (n \div h)
           yy == y + (n % h)
           m == field_mut(g, xx, yy, build)
       IN  IF m.panic THEN [panic |-> TRUE, g |-> g]
           ELSE ClearLoop(SetField(g, m.idx,
                                   ClearField(g.grid[m.idx + 1],
                                              xx = x, xx = x + w - 1,
                                              yy = y, yy = y + h - 1)),
                          x, y, w, h, n + 1, build)

\* Grid::clear(x, y, w, h)
Grid_clear(g, x, y, w, h, build) ==
  IF w < 0 \/ h < 0 THEN [panic |-> TRUE, g |-> g]
  ELSE ClearLoop(g, x, y, w, h, 0, build)

NUL == 0

\* the loop of Grid::paint_decoration from the n-th char of s on
RECURSIVE DecorationLoop(_, _, _, _, _, _)
DecorationLoop(g, x, y, s, n, build) ==
  IF n >= Len(s) THEN [panic |-> FALSE, g |-> g]
  ELSE IF s[n + 1] = NUL THEN DecorationLoop(g, x, y, s, n + 1, build)
  ELSE LET m == field_mut(g, x + n, y, build)
       IN  IF m.panic THEN [panic |-> TRUE, g |-> g]
           ELSE DecorationLoop(SetField(g, m.idx, Field_Decoration(s[n + 1])),
                               x, y, s, n + 1, build)

\* Grid::paint_decoration(x, y, s)
Grid_paint_decoration(g, x, y, s, build) ==
  DecorationLoop(g, x, y, s, 0, build)

\* the paints of a sequence of <<x, y, d>>, one after the other, from the
\* n-th on
RECURSIVE PaintAll(_, _, _, _, _)
PaintAll(g, ps, p, n, build) ==
  IF n > Len(ps) THEN [panic |-> FALSE, g |-> g]
  ELSE LET r == Grid_paint(g, ps[n][1], ps[n][2], ps[n][3], p, build)
       IN  IF r.panic THEN r ELSE PaintAll(r.g, ps, p, n + 1, build)

\* Grid::paint_wall(x0, y0, len, d, inclusive, p)
Grid_paint_wall(g, x0, y0, len, d, inclusive, p, build) ==
  LET d1 == d
      d2 == CASE d = Right -> Left [] d = Left -> Right
              [] d = Down -> Up [] d = Up -> Down
      dx == CASE d = Right -> 1 [] d = Left -> -1 [] OTHER -> 0
      dy == CASE d = Down -> 1 [] d = Up -> -1 [] OTHER -> 0
      x1 == x0 + len * dx
      y1 == y0 + len * dy
      first == IF inclusive THEN << <<x0, y0, d1>> >> ELSE <<>>
      inner == [k \in 1..(IF len > 1 THEN 2 * (len - 1) ELSE 0) |->
                  LET i == (k + 1) \div 2
                  IN  <<x0 + i * dx, y0 + i * dy,
                        IF k % 2 = 1 THEN d2 ELSE d1>>]
      final == IF inclusive THEN << <<x1, y1, d2>> >> ELSE <<>>
  IN  IF len < 0 THEN [panic |-> TRUE, g |-> g]
      ELSE PaintAll(g, first \o inner \o final, p, 1, build)

\* the glyph of no arm of a match
NoGlyph == -1
\* " "
Blank == 32

\* the arms of the match of Grid::render_field_drawing, in their order:
\* <<up, right, down, left, glyph>>
GlyphArms ==
  << <<None, None, None, None, 32>>,
     <<None, None, None, Thin, 9588>>,
     <<None, None, Thin, None, 9591>>,
     <<None, None, Thin, Thin, 9488>>,
     <<None, Thin, None, None, 9590>>,
     <<None, Thin, None, Thin, 9472>>,
     <<None, Thin, Thin, None, 9484>>,
     <<None, Thin, Thin, Thin, 9516>>,
     <<Thin, None, None, None, 9589>>,
     <<Thin, None, None, Thin, 9496>>,
     <<Thin, None, Thin, None, 9474>>,
     <<Thin, None, Thin, Thin, 9508>>,
     <<Thin, Thin, None, None, 9492>>,
     <<Thin, Thin, None, Thin, 9524>>,
     <<Thin, Thin, Thin, None, 9500>>,
     <<Thin, Thin, Thin, Thin, 9532>>,
     <<None, None, None, Thik, 9592>>,
     <<None, None, Thik, None, 9595>>,
     <<None, None, Thik, Thik, 9491>>,
     <<None, Thik, None, None, 9594>>,
     <<None, Thik, None, Thik, 9473>>,
     <<None, Thik, Thik, None, 9487>>,
     <<None, Thik, Thik, Thik, 9523>>,
     <<Thik, None, None, None, 9593>>,
     <<Thik, None, None, Thik, 9499>>,
     <<Thik, None, Thik, None, 9475>>,
     <<Thik, None, Thik, Thik, 9515>>,
     <<Thik, Thik, None, None, 9495>>,
     <<Thik, Thik, None, Thik, 9531>>,
     <<Thik, Thik, Thik, None, 9507>>,
     <<Thik, Thik, Thik, Thik, 9547>>,
     <<None, None, Thik, Thin, 9490>>,
     <<None, None, Thin, Thik, 9489>>,
     <<None, Thik, None, Thin, 9596>>,
     <<None, Thik, Thik, Thin, 9522>>,
     <<None, Thik, Thin, None, 9485>>,
     <<None, Thik, Thin, Thik, 9519>>,
     <<None, Thik, Thin, Thin, 9518>>,
     <<None, Thin, None, Thik, 9598>>,
     <<None, Thin, Thik, None, 9486>>,
     <<None, Thin, Thik, Thik, 9521>>,
     <<None, Thin, Thik, Thin, 9520>>,
     <<None, Thin, Thin, Thik, 9517>>,
     <<Thik, None, None, Thin, 9498>>,
     <<Thik, None, Thik, Thin, 9512>>,
     <<Thik, None, Thin, None, 9599>>,
     <<Thik, None, Thin, Thik, 9513>>,
     <<Thik, None, Thin, Thin, 9510>>,
     <<Thik, Thik, None, Thin, 9530>>,
     <<Thik, Thik, Thik, Thin, 9546>>,
     <<Thik, Thik, Thin, None, 9505>>,
     <<Thik, Thik, Thin, Thik, 9543>>,
     <<Thik, Thik, Thin, Thin, 9540>>,
     <<Thik, Thin, None, None, 9494>>,
     <<Thik, Thin, None, Thik, 9529>>,
     <<Thik, Thin, None, Thin, 9528>>,
     <<Thik, Thin, Thik, None, 9504>>,
     <<Thik, Thin, Thik, Thik, 9545>>,
     <<Thik, Thin, Thik, Thin, 9538>>,
     <<Thik, Thin, Thin, None, 9502>>,
     <<Thik, Thin, Thin, Thik, 9539>>,
     <<Thik, Thin, Thin, Thin, 9536>>,
     <<Thin, None, None, Thik, 9497>>,
     <<Thin, None, Thik, None, 9597>>,
     <<Thin, None, Thik, Thik, 9514>>,
     <<Thin, None, Thik, Thin, 9511>>,
     <<Thin, None, Thin, Thik, 9509>>,
     <<Thin, Thik, None, None, 9493>>,
     <<Thin, Thik, None, Thik, 9527>>,
     <<Thin, Thik, None, Thin, 9526>>,
     <<Thin, Thik, Thik, None, 9506>>,
     <<Thin, Thik, Thik, Thik, 9544>>,
     <<Thin, Thik, Thin, Thin, 9534>>,
     <<Thin, Thik, Thik, Thin, 9542>>,
     <<Thin, Thik, Thin, None, 9501>>,
     <<Thin, Thik, Thin, Thik, 9535>>,
     <<Thin, Thin, None, Thik, 9525>>,
     <<Thin, Thin, Thik, None, 9503>>,
     <<Thin, Thin, Thik, Thik, 9541>>,
     <<Thin, Thin, Thik, Thin, 9537>>,
     <<Thin, Thin, Thin, Thik, 9533>> >>

\* the glyph of the first arm from the n-th on that matches
RECURSIVE FirstArm(_, _)
FirstArm(dw, n) ==
  IF n > Len(GlyphArms) THEN NoGlyph
  ELSE IF <<dw.up, dw.right, dw.down, dw.left>> =
          <<GlyphArms[n][1], GlyphArms[n][2], GlyphArms[n][3],
            GlyphArms[n][4]>>
       THEN GlyphArms[n][5]
       ELSE FirstArm(dw, n + 1)

\* Grid::render_field_drawing that looks at three of the four pens
render_field_drawing_NoLeft(dw) ==
  FirstArm(MkDrawing(dw.up, dw.right, dw.down, None), 1)

\* Grid::render_field_drawing(dw)
render_field_drawing(dw) == FirstArm(dw, 1)

\* the Grid of the specifications that paint nothing
NoGrid == Grid_new(0, 0)

----------------------------------------------------------------------------
\* what is remembered of the last operation: its name and the one before,
\* the blocks before it (pg0, blk0, next0), the blocks after the key of a
\* play iteration was handled (pg1, blk1), what the operation returned,
\* the score and the multiplier before a play iteration (score0, mult0)
\* and the multiplier after the delta of its explosion (mult1), the
\* level that was computed (lvl), the block a run of calls started with
\* (start) and the number of calls since (calls), the tile type that was
\* drawn (tile), and of an operation of the Grid: the Grid before it
\* (grid0), its arguments (args), the build that ran it (build) and whether
\* it panicked (panic)
NoLast ==
  [op |-> "init", prev |-> "init", pg0 |-> Block_new, blk0 |-> Block_new,
   next0 |-> Block_new, pg1 |-> Block_new, blk1 |-> Block_new,
   exploded |-> <<>>, hits |-> 0, dmult |-> 0, ok |-> TRUE,
   dropped |-> FALSE, score0 |-> 0, mult0 |-> 0, mult1 |-> 0, lvl |-> 0,
   start |-> Block_new, calls |-> 0, tile |-> NoTile, grid0 |-> NoGrid,
   args |-> <<>>, build |-> "debug", panic |-> FALSE]

----------------------------------------------------------------------------
(* Specification of Block::explode called on a block, again and again *)

InitExplode ==
  /\ pg \in RectBlocks
  /\ blk = Block_new
  /\ next = Block_new
  /\ score = 0
  /\ multiplier = 1
  /\ pc = "play"
  /\ last = NoLast
  /\ grid = NoGrid

\* pg.explode()
Explode ==
  LET r == Block_explode(pg)
  IN  /\ pg' = r.self
      /\ last' = [NoLast EXCEPT !.op = "explode", !.prev = last.op,
                                 !.pg0 = pg, !.exploded = r.exploded,
                                 !.hits = r.hits, !.dmult = r.dmult]
      /\ UNCHANGED <<grid, blk, next, score, multiplier, pc>>

NextExplode == Explode

SpecExplode == InitExplode /\ [][NextExplode]_vars

----------------------------------------------------------------------------
(* Specification of Block::drop: a block of one of the seven shapes is     *)
(* moved and turned about and then dropped into a destination block.       *)

\* a piece whose first tile is of type first, the others of type rest
PieceOf(shape, first, rest) ==
  new_from_shape(shape,
                 [i \in 1..Len(shape) |-> IF i = 1 THEN first ELSE rest])

DropPieces ==
  {PieceOf(Shapes[s], f, Plain(0)) :
     s \in 1..Len(Shapes), f \in {Plain(0), Killer(2), Flask(Acid)}}

\* the tiles given by absolute positions, held by a block anchored at a
Rebased(a, tiles, ox, oy) ==
  MkBlock(a[1], a[2],
          [i \in 1..Len(tiles) |->
             <<tiles[i][1] + ox - a[1], tiles[i][2] + oy - a[2],
               tiles[i][3]>>])

DropDests ==
  {Rebased(a, RectTiles(d[1], d[2], f, Keep, Keep), 2, 2) :
     a \in Anchors, d \in (1..2) \X (1..2),
     f \in {Plain(1), Spillage(Acid)}}

InitDrop ==
  /\ pg \in DropDests
  /\ blk \in {moved_to(p, 2, 2) : p \in DropPieces}
  /\ next = Block_new
  /\ score = 0
  /\ multiplier = 1
  /\ pc = "play"
  /\ last = NoLast
  /\ grid = NoGrid

\* blk = blk.moved(dx, dy)
Moved(dx, dy) ==
  /\ last.op # "drop"
  /\ blk.x + dx \in 1..MaxX
  /\ blk.y + dy \in 1..MaxY
  /\ blk' = moved(blk, dx, dy)
  /\ last' = [NoLast EXCEPT !.op = "moved"]
  /\ UNCHANGED <<grid, pg, next, score, multiplier, pc>>

\* blk = blk.turned()
Turned ==
  /\ last.op # "drop"
  /\ blk' = turned(blk)
  /\ last' = [NoLast EXCEPT !.op = "turned"]
  /\ UNCHANGED <<grid, pg, next, score, multiplier, pc>>

\* blk.drop(&mut pg, &bd), at most twice in a row
Drop ==
  /\ last.prev # "drop"
  /\ LET r == Block_drop(blk, pg, bd)
     IN  /\ pg' = r.dest
         /\ last' = [NoLast EXCEPT !.op = "drop", !.prev = last.op,
                                    !.pg0 = pg, !.blk0 = blk, !.ok = r.ok]
  /\ UNCHANGED <<grid, blk, next, score, multiplier, pc>>

NextDrop ==
  \/ \E d \in {<<-1, 0>>, <<1, 0>>, <<0, -1>>, <<0, 1>>} : Moved(d[1], d[2])
  \/ Turned
  \/ Drop

SpecDrop == InitDrop /\ [][NextDrop]_vars

----------------------------------------------------------------------------
(* Specification of a collision of two tiles: a block of one tile is put   *)
(* on the tile of a stationary block, and Block::collide resolves it with  *)
(* TileType::collide(t1, t2), t1 the tile of the moving block.             *)

CollideTiles ==
  {Plain(0), Plain(1), Permanent, Picker, Centerpiece(1), Whopper(1),
   Flask(Acid), Flask(Glue), Spillage(Acid), Spillage(Glue), Plus, Minus}
  \cup {Killer(n) : n \in 1..MaxKiller}

InitCollide ==
  /\ blk \in {MkBlock(2, 2, << <<0, 0, t>> >>) : t \in CollideTiles}
  /\ pg \in {Rebased(a, << <<0, 0, t>> >>, 2, 2) :
               a \in Anchors, t \in CollideTiles}
  /\ next = Block_new
  /\ score = 0
  /\ multiplier = 1
  /\ pc = "play"
  /\ last = NoLast
  /\ grid = NoGrid

\* (blk, pg) = Block::collide(blk, &pg)
Collide ==
  /\ last.op # "collide"
  /\ LET c == Block_collide(blk, pg)
     IN  /\ blk' = c[1]
         /\ pg' = c[2]
         /\ last' = [NoLast EXCEPT !.op = "collide", !.pg0 = pg, !.blk0 = blk]
  /\ UNCHANGED <<grid, next, score, multiplier, pc>>

NextCollide == Collide

SpecCollide == InitCollide /\ [][NextCollide]_vars

----------------------------------------------------------------------------
(* Specification of the level: the play loop computes level(score) of the  *)
(* score it has, to show it and to choose the tiles of the next piece.     *)

InitLevel ==
  /\ score \in 0..MaxScore
  /\ pg = Block_new
  /\ blk = Block_new
  /\ next = Block_new
  /\ multiplier = 1
  /\ pc = "play"
  /\ last = NoLast
  /\ grid = NoGrid

\* level(score)
Level ==
  /\ last.op # "level"
  /\ last' = [NoLast EXCEPT !.op = "level", !.score0 = score,
                            !.lvl = level(score)]
  /\ UNCHANGED <<grid, pg, blk, next, score, multiplier, pc>>

NextLevel == Level

SpecLevel == InitLevel /\ [][NextLevel]_vars

----------------------------------------------------------------------------
(* Specification of the play loop.  It starts from the beginning of a game *)
(* or from a game in progress (some tiles settled next to the place where  *)
(* pieces appear), and follows the falling piece through the iterations of *)
(* the loop until it has been dropped and the next piece has appeared.     *)
(* The clock is not modelled: whether the drop timer or the grace period   *)
(* and the multiplier timer have run out are choices of an iteration.  The *)
(* drop timer is taken to run out in an iteration without a move key; an   *)
(* iteration with both leaves the blocks as the two iterations in a row.   *)

\* play::block_collides
block_collides(block, border, playfield) ==
  collides_with(block, border) \/ collides_with(block, playfield)

\* play::try_move committing the playfield before the second test
try_move_EarlyCommit(mv, b, border, playfield) ==
  IF intersects(mv, border)
  THEN [blk |-> b, pg |-> playfield]
  ELSE IF collides_with(mv, playfield)
       THEN LET c == Block_collide(mv, playfield)
            IN  IF collides_with(c[1], c[2])
                THEN [blk |-> b, pg |-> c[2]]
                ELSE [blk |-> c[1], pg |-> c[2]]
       ELSE [blk |-> mv, pg |-> playfield]

\* play::try_move: [blk |-> the returned block, pg |-> pg afterwards]
try_move(mv, b, border, playfield) ==
  IF intersects(mv, border)
  THEN [blk |-> b, pg |-> playfield]
  ELSE IF collides_with(mv, playfield)
       THEN LET c == Block_collide(mv, playfield)
            IN  IF collides_with(c[1], c[2])
                THEN [blk |-> b, pg |-> playfield]
                ELSE [blk |-> c[1], pg |-> c[2]]
       ELSE [blk |-> mv, pg |-> playfield]

\* play: the delta added to the multiplier without the test of its size
AfterDelta_Unclamped(mult, dm) == mult + dm

\* play: the multiplier after an explosion with the delta dm
AfterDelta(mult, dm) ==
  IF dm # 0
  THEN IF dm < 0
       THEN IF (0 - dm) >= mult THEN 0 ELSE mult - (0 - dm)
       ELSE mult + dm
  ELSE mult

\* play: the end of an iteration, mult_drop decided at its beginning
AfterMultDrop(mult, multDrop) ==
  IF multDrop THEN (IF mult > 1 THEN mult - 1 ELSE mult + 1) ELSE mult

\* the pieces of the model: the seven shapes of Plain(0) tiles, a 1x2
\* piece with a Killer(2) and a single Picker
GamePieces ==
  {PieceOf(Shapes[s], Plain(0), Plain(0)) : s \in 1..Len(Shapes)}
  \cup {PieceOf(shape_1x2, Killer(2), Plain(0)),
        PieceOf(shape_1x1, Picker, Picker)}

\* Block::new_random(score), within the pieces of the model
Block_new_random(sc) ==
  {p \in GamePieces :
     \A i \in 1..Len(p.tiles) : p.tiles[i][3] \in TileType_new_random(sc)}

\* the previews of the model
Previews(sc) ==
  Block_new_random(sc) \cap
    {PieceOf(shape_1x1, Picker, Picker), PieceOf(shape_l, Plain(0), Plain(0))}

\* playfields of a game in progress: settled tiles in column 3 and row 3
GamePlayfields ==
  {MkBlock(0, 0, << <<3, 2, a>>, <<3, 1, Plain(0)>>, <<1, 3, Plain(1)>> >>) :
     a \in {Plain(0), Spillage(Glue)}}

\* the score of the modelled game in progress: a score of level 8, where
\* new_random returns every tile type
MidGameScore == 3000

\* the falling pieces of a game in progress
MidGamePieces ==
  {PieceOf(shape_1x2, Killer(2), Plain(0)),
   PieceOf(shape_1x1, Picker, Picker),
   PieceOf(shape_l, Plain(0), Plain(0))}

InitGame ==
  /\ \/ /\ score = 0
        /\ pg = Block_new
        /\ blk \in {moved_to(p, 2, 2) : p \in Block_new_random(score)}
     \/ /\ score = MidGameScore
        /\ pg \in GamePlayfields
        /\ blk \in {moved_to(p, 2, 2) :
                      p \in Block_new_random(score) \cap MidGamePieces}
  /\ next \in {moved_to(p, 1, 1) : p \in Previews(score)}
  /\ ~block_collides(blk, bd, pg)
  /\ multiplier = 1
  /\ pc = "play"
  /\ last = NoLast
  /\ grid = NoGrid

\* the rest of an iteration of the loop after the key was handled, which
\* left the blocks b1 (falling), n1 (preview) and p1 (playfield)
Iteration(op, b1, n1, p1, ok, drop, multOver) ==
  LET multDrop == multOver /\ multiplier # 1
      r == Block_drop(b1, p1, bd)
      base == [NoLast EXCEPT !.op = op, !.pg0 = pg,
                             !.blk0 = blk, !.next0 = next, !.pg1 = p1,
                             !.blk1 = b1, !.ok = ok, !.score0 = score,
                             !.mult0 = multiplier, !.mult1 = multiplier]
  IN  IF (b1.tiles = <<>> \/ drop) /\ r.ok
      THEN LET x == Block_explode(r.dest)
               sc == score + x.hits * multiplier
               nb == moved(n1, 1, 1)
               over == block_collides(nb, bd, x.self)
           IN  /\ pg' = x.self
               /\ score' = sc
               /\ blk' = nb
               /\ next' \in {moved_to(p, 1, 1) : p \in Previews(sc)}
               /\ pc' = IF over THEN "over" ELSE "play"
               /\ multiplier' =
                    IF over THEN AfterDelta(multiplier, x.dmult)
                    ELSE AfterMultDrop(AfterDelta(multiplier, x.dmult),
                                       multDrop)
               /\ last' = [base EXCEPT !.dropped = TRUE,
                                       !.exploded = x.exploded,
                                       !.hits = x.hits, !.dmult = x.dmult,
                                       !.mult1 =
                                          AfterDelta(multiplier, x.dmult)]
               /\ grid' = grid
      ELSE /\ pg' = p1
           /\ blk' = b1
           /\ next' = n1
           /\ score' = score
           /\ pc' = "play"
           /\ multiplier' = AfterMultDrop(multiplier, multDrop)
           /\ last' = base
           /\ grid' = grid

\* the multiplier timer matters only while the multiplier is not 1
MultOvers == IF multiplier # 1 THEN BOOLEAN ELSE {FALSE}

\* the model follows one piece: nothing more once it has been dropped
Playing == pc = "play" /\ ~last.dropped

\* KEY_LEFT, KEY_RIGHT, KEY_UP, KEY_DOWN
KeyMove(op, dx, dy) ==
  /\ Playing
  /\ blk.x + dx \in 1..MaxGameX
  /\ blk.y + dy \in 1..MaxGameY
  /\ \E multOver \in MultOvers :
       LET r == try_move(moved(blk, dx, dy), blk, bd, pg)
       IN  Iteration(op, r.blk, next, r.pg, TRUE, FALSE, multOver)

KeyLeft == KeyMove("left", -1, 0)
KeyRight == KeyMove("right", 1, 0)
KeyUp == KeyMove("up", 0, -1)
KeyDown == KeyMove("down", 0, 1)

\* '\t'
KeyTab ==
  /\ Playing
  /\ \E multOver \in MultOvers :
       LET r == try_move(turned(blk), blk, bd, pg)
       IN  Iteration("turn", r.blk, next, r.pg, TRUE, FALSE, multOver)

\* KEY_BACKSPACE placing the preview through try_move like a move
KeyBackspace_TryMove ==
  /\ Playing
  /\ \E multOver \in MultOvers :
       LET r == try_move(moved_to(next, blk.x, blk.y), blk, bd, pg)
       IN  IF r.blk # blk
           THEN Iteration("swap", r.blk, moved_to(blk, 1, 1), r.pg, TRUE,
                          FALSE, multOver)
           ELSE Iteration("swap", blk, next, pg, FALSE, FALSE, multOver)

\* KEY_BACKSPACE
KeyBackspace ==
  /\ Playing
  /\ \E multOver \in MultOvers :
       LET mv == moved_to(next, blk.x, blk.y)
       IN  IF ~block_collides(mv, bd, pg)
           THEN Iteration("swap", mv, moved_to(blk, 1, 1), pg, TRUE,
                          FALSE, multOver)
           ELSE Iteration("swap", blk, next, pg, FALSE, FALSE, multOver)

\* '\r', 'p', any other key and no key: only the timers act
KeyOther ==
  /\ Playing
  /\ \E drop \in BOOLEAN, multOver \in MultOvers :
       Iteration("other", blk, next, pg, TRUE, drop, multOver)

\* 'q'
KeyQuit ==
  /\ Playing
  /\ pc' = "quit"
  /\ last' = [NoLast EXCEPT !.op = "quit", !.pg0 = pg,
                            !.blk0 = blk, !.next0 = next, !.pg1 = pg,
                            !.blk1 = blk]
  /\ UNCHANGED <<grid, pg, blk, next, score, multiplier>>

NextGame ==
  \/ KeyLeft
  \/ KeyRight
  \/ KeyUp
  \/ KeyDown
  \/ KeyTab
  \/ KeyBackspace
  \/ KeyOther
  \/ KeyQuit

SpecGame == InitGame /\ [][NextGame]_vars

----------------------------------------------------------------------------
(* Specification of a round that ends in an explosion: the play loop with  *)
(* a playfield that holds eight tiles of a 3x3 around the place where the  *)
(* piece appears, some of them Minus, Plus or a Flask, a piece of one tile  *)
(* (a plain-class tile with any multiplier, or a Killer(2)) and the        *)
(* l-shaped piece as the preview.                                          *)

\* the eight cells around (2, 2)
RingCells ==
  << <<1, 1>>, <<2, 1>>, <<3, 1>>, <<1, 2>>, <<3, 2>>, <<1, 3>>, <<2, 3>>,
     <<3, 3>> >>

\* the ring with m Minus tiles, then p Plus tiles, Plain(0), and g last
RingTiles(m, p, g) ==
  [i \in 1..8 |->
     <<RingCells[i][1], RingCells[i][2],
       IF i = 8 THEN g
       ELSE IF i <= m THEN Minus
       ELSE IF i <= m + p THEN Plus
       ELSE Plain(0)>>]

RoundPlayfields(ms) ==
  {MkBlock(0, 0, RingTiles(m, p, g)) :
     m \in ms, p \in 0..1, g \in {Plain(0), Flask(Glue)}}

RoundPieces ==
  {PieceOf(shape_1x1, t, t) : t \in {Plain(0), Minus, Flask(Acid)}}

InitRound ==
  /\ score = MidGameScore
  /\ \/ /\ pg \in RoundPlayfields({0, MaxMinus - 1, MaxMinus})
        /\ blk \in {moved_to(p, 2, 2) : p \in RoundPieces}
        /\ multiplier \in 0..MaxMult
     \/ /\ pg \in RoundPlayfields({0})
        /\ blk = moved_to(PieceOf(shape_1x1, Killer(2), Killer(2)), 2, 2)
        /\ multiplier = 1
  /\ blk.tiles[1][3] \in TileType_new_random(score)
  /\ next = moved_to(PieceOf(shape_l, Plain(0), Plain(0)), 1, 1)
  /\ ~block_collides(blk, bd, pg)
  /\ pc = "play"
  /\ last = NoLast
  /\ grid = NoGrid

SpecRound == InitRound /\ [][NextGame]_vars

----------------------------------------------------------------------------
(* Vocabulary of the properties: blocks seen as tiles at absolute          *)
(* positions, independent of the order of the Vec.                         *)

\* absolute position of tile i of block b
PosOf(b, i) == <<b.x + b.tiles[i][1], b.y + b.tiles[i][2]>>

\* the tile types block b holds at the absolute position p
TypesAt(b, p) ==
  {b.tiles[i][3] : i \in {j \in 1..Len(b.tiles) : PosOf(b, j) = p}}

\* number of tiles block b holds at the absolute position p
CountAt(b, p) == Cardinality({i \in 1..Len(b.tiles) : PosOf(b, i) = p})

\* number of entries of the sequence s that equal e
Occurrences(s, e) == Cardinality({i \in 1..Len(s) : s[i] = e})

\* the positions of the explode shape of a tile of type tt centred on p
ShapeAround(tt, p) ==
  LET r == IF tt.k = "Whopper" THEN 2 ELSE 1
  IN  {<<p[1] + dx, p[2] + dy>> : dx \in (0 - r)..r, dy \in (0 - r)..r}

\* tile i of b has every position of its shape held by a tile it explodes
FullyMatched(b, i) ==
  \A q \in ShapeAround(b.tiles[i][3], PosOf(b, i)) :
     \E u \in TypesAt(b, q) : explodes(b.tiles[i][3], u)

\* the absolute positions covered by some fully matched shape
MatchedPositions(b) ==
  UNION {ShapeAround(b.tiles[i][3], PosOf(b, i)) :
           i \in {j \in 1..Len(b.tiles) : FullyMatched(b, j)}}

\* the tiles (indices of the Vec) of b that lie in a fully matched shape
MatchedTiles(b) ==
  LET mp == MatchedPositions(b)
  IN  {i \in 1..Len(b.tiles) : PosOf(b, i) \in mp}

RECURSIVE SumOver(_, _, _)
SumOver(S, b, f) ==
  IF S = {} THEN 0
  ELSE LET i == CHOOSE j \in S : TRUE
       IN  f[b.tiles[i][3]] + SumOver(S \ {i}, b, f)

\* bonus per tile as the documentation gives it
BonusTable ==
  [tt \in {Plain(n) : n \in 0..8} \cup {Centerpiece(n) : n \in 0..8}
          \cup {Whopper(n) : n \in 0..8} \cup {Killer(n) : n \in 0..8}
          \cup {Permanent, Picker, Plus, Minus, Flask(Acid), Flask(Glue),
                Spillage(Acid), Spillage(Glue)} |->
     IF tt.k = "Plain" THEN tt.n + 1
     ELSE IF tt.k = "Centerpiece" THEN 10 * tt.n
     ELSE IF tt.k = "Whopper" THEN 30 ELSE 1]

\* number of exploded tiles of kind k reported by the last explode()
ExplodedOfKind(k) ==
  Cardinality({i \in 1..Len(last.exploded) : last.exploded[i][3].k = k})

\* the bulk bonus for n exploded tiles
BulkRule(n) == IF n > 12 THEN (n - 9) \div 9 ELSE 0

\* b holds exactly nine Plain(0) tiles forming a solid 3x3 square
IsPlainSquare(b) ==
  /\ Len(b.tiles) = 9
  /\ \E i \in 1..9 :
       \A q \in ShapeAround(Plain(0), PosOf(b, i)) :
          TypesAt(b, q) = {Plain(0)} /\ CountAt(b, q) = 1

\* blocks a and b hold a tile at a common absolute position
Overlap(a, b) ==
  \E i \in 1..Len(a.tiles) : \E j \in 1..Len(b.tiles) :
     PosOf(a, i) = PosOf(b, j)

\* what a tile becomes when it lands, as documented
Landed(tt) == IF tt.k = "Killer" THEN Plain(0) ELSE tt

----------------------------------------------------------------------------
(* Properties of Block::explode *)

\* C1: a block that is exactly a solid 3x3 square of Plain(0) tiles loses
\* all nine tiles in one explode(), which reports those nine as exploded,
\* hits = 9 and dmult = 0, and leaves the block without any tile.
C1_PlainSquareExplodes ==
  (last.op = "explode" /\ IsPlainSquare(last.pg0)) =>
     /\ pg.tiles = <<>>
     /\ Len(last.exploded) = 9
     /\ \A i \in 1..9 : Occurrences(last.exploded, last.pg0.tiles[i]) = 1
     /\ last.hits = 9
     /\ last.dmult = 0
     /\ \A i \in 1..9 : CountAt(pg, PosOf(last.pg0, i)) = 0

C1_Witness ==
  /\ last.op = "explode"
  /\ IsPlainSquare(last.pg0)
  /\ last.pg0.x # 0
  /\ pg.tiles = <<>>
  /\ last.hits = 9

\* C2: explode() reports as exploded exactly the tiles lying in a fully
\* matched explode shape, and keeps every other tile with the same offset
\* and the same type.
C2_ExplodesExactlyMatched ==
  last.op = "explode" =>
     LET b == last.pg0
         M == MatchedTiles(b)
     IN  /\ \A i \in M :
              Occurrences(last.exploded, b.tiles[i])
                = Cardinality({j \in M : b.tiles[j] = b.tiles[i]})
         /\ Len(last.exploded) = Cardinality(M)
         /\ \A i \in (1..Len(b.tiles)) \ M :
              Occurrences(pg.tiles, b.tiles[i])
                >= Cardinality({j \in (1..Len(b.tiles)) \ M :
                                  b.tiles[j] = b.tiles[i]})

C2_Witness ==
  /\ last.op = "explode"
  /\ MatchedTiles(last.pg0) # {}
  /\ \E i \in (1..Len(last.pg0.tiles)) \ MatchedTiles(last.pg0) :
        is_plain(last.pg0.tiles[i][3])
  /\ \E i \in 1..Len(last.pg0.tiles) :
        last.pg0.tiles[i][3].k = "Permanent"

C2_WitnessWhopper ==
  /\ last.op = "explode"
  /\ \E i \in 1..Len(last.pg0.tiles) :
        last.pg0.tiles[i][3].k = "Whopper" /\ FullyMatched(last.pg0, i)
  /\ Len(last.exploded) = 25

\* C3: every exploded Flask(l) at p leaves Spillage at p and at its four
\* orthogonal neighbours wherever the sweep left no tile, and a position
\* that holds a tile after the sweep keeps it and gets no second tile.
C3_SpillOnlyIntoEmpty ==
  last.op = "explode" =>
     LET b == last.pg0
         M == MatchedTiles(b)
         flasks == {i \in M : b.tiles[i][3].k = "Flask"}
         five(p) == {p, <<p[1], p[2] + 1>>, <<p[1] + 1, p[2]>>,
                     <<p[1], p[2] - 1>>, <<p[1] - 1, p[2]>>}
         targets == UNION {five(PosOf(b, i)) : i \in flasks}
         liquids(q) == {b.tiles[i][3].n :
                          i \in {j \in flasks : q \in five(PosOf(b, j))}}
         survivors(q) ==
           {i \in 1..Len(b.tiles) :
              /\ PosOf(b, i) = q
              /\ i \in M => TileType_explode(b.tiles[i][3]).a = "Convert"}
     IN  \A q \in targets :
           IF survivors(q) = {}
           THEN /\ CountAt(pg, q) = 1
                /\ \E l \in liquids(q) : TypesAt(pg, q) = {Spillage(l)}
           ELSE CountAt(pg, q) = Cardinality(survivors(q))

\* the same for a block anchored at (0, 0), as the playfield is
C3_AtOrigin ==
  (last.pg0.x = 0 /\ last.pg0.y = 0) => C3_SpillOnlyIntoEmpty

\* C4: hits is the sum of bonus() over the exploded tiles, each tile
\* counted once however many detonating tiles cover it, and the exploded
\* list holds each exploded tile once.
C4_HitsSumBonus ==
  last.op = "explode" =>
     LET b == last.pg0
         M == MatchedTiles(b)
     IN  /\ last.hits = SumOver(M, b, BonusTable)
         /\ Len(last.exploded) = Cardinality(M)

C4_Witness ==
  /\ last.op = "explode"
  /\ Cardinality({i \in 1..Len(last.pg0.tiles) :
                    FullyMatched(last.pg0, i)}) >= 2
  /\ \E i \in 1..Len(last.exploded) : last.exploded[i][3].k = "Centerpiece"
  /\ \E i \in 1..Len(last.exploded) : last.exploded[i][3] = Plain(1)
  /\ last.hits > Len(last.exploded)

\* C5: when more than 12 tiles explode, (count - 9) / 9 is added to the
\* multiplier delta (1 for 21 tiles); for 12 or fewer nothing is added.
C5_BulkBonus ==
  last.op = "explode" =>
     LET n == Len(last.exploded)
         base == ExplodedOfKind("Plus") - ExplodedOfKind("Minus")
     IN  /\ n > 12 => last.dmult = base + (n - 9) \div 9
         /\ n <= 12 => last.dmult = base
         /\ n = 21 => last.dmult = base + 1

C5_Witness ==
  /\ last.op = "explode"
  /\ Len(last.exploded) = 21
  /\ last.dmult = 1

\* C6: every exploded Plus adds 1 and every exploded Minus subtracts 1
\* from dmult, the tile itself leaves the board without a replacement, and
\* apart from the bulk bonus dmult is #Plus - #Minus.
C6_PlusMinus ==
  last.op = "explode" =>
     LET b == last.pg0
         M == MatchedTiles(b)
     IN  /\ last.dmult - BulkRule(Len(last.exploded))
              = Cardinality({i \in M : b.tiles[i][3] = Plus})
                - Cardinality({i \in M : b.tiles[i][3] = Minus})
         /\ \A i \in M :
              b.tiles[i][3] \in {Plus, Minus} =>
                /\ TypesAt(pg, PosOf(b, i)) \subseteq
                     {Spillage(Acid), Spillage(Glue)} \cup
                     {b.tiles[j][3] : j \in {m \in 1..Len(b.tiles) :
                                               m # i /\ PosOf(b, m) = PosOf(b, i)}}
         /\ Occurrences([i \in 1..Len(pg.tiles) |-> pg.tiles[i][3]], Plus)
              = Occurrences([i \in 1..Len(b.tiles) |-> b.tiles[i][3]], Plus)
                - ExplodedOfKind("Plus")
         /\ Occurrences([i \in 1..Len(pg.tiles) |-> pg.tiles[i][3]], Minus)
              = Occurrences([i \in 1..Len(b.tiles) |-> b.tiles[i][3]], Minus)
                - ExplodedOfKind("Minus")

C6_Witness ==
  /\ last.op = "explode"
  /\ ExplodedOfKind("Minus") = 2
  /\ last.dmult = 0 - 2

C6_WitnessBoth ==
  /\ last.op = "explode"
  /\ ExplodedOfKind("Minus") = 1
  /\ ExplodedOfKind("Plus") = 1
  /\ last.dmult = 0

\* C7: on a block in which no tile has its whole explode shape matched,
\* explode() changes nothing and returns no exploded tile, hits = 0 and
\* dmult = 0, also when it is called again.
C7_StableIdempotent ==
  (last.op = "explode" /\ MatchedTiles(last.pg0) = {}) =>
     /\ pg = last.pg0
     /\ last.exploded = <<>>
     /\ last.hits = 0
     /\ last.dmult = 0

C7_Witness ==
  /\ last.op = "explode"
  /\ last.prev = "explode"
  /\ MatchedTiles(last.pg0) = {}
  /\ Len(last.pg0.tiles) >= 9
  /\ pg = last.pg0

----------------------------------------------------------------------------
(* Properties of Block::drop *)

\* C8: a drop of a block that has a tile at the absolute position of a
\* tile of the border or of dest returns false and changes neither dest
\* nor the block.
C8_DropRefused ==
  (last.op = "drop" /\ (Overlap(last.blk0, bd) \/ Overlap(last.blk0, last.pg0)))
     => /\ last.ok = FALSE
        /\ pg = last.pg0
        /\ blk = last.blk0

C8_Witness ==
  /\ last.op = "drop"
  /\ last.ok = FALSE
  /\ Overlap(last.blk0, last.pg0)
  /\ ~Overlap(last.blk0, bd)
  /\ \E i \in 1..Len(last.blk0.tiles) :
        CountAt(last.pg0, PosOf(last.blk0, i)) = 0
  /\ pg = last.pg0

C8_WitnessBorder ==
  /\ last.op = "drop"
  /\ last.ok = FALSE
  /\ Overlap(last.blk0, bd)
  /\ ~Overlap(last.blk0, last.pg0)
  /\ pg = last.pg0

\* C9: a drop of a block that overlaps neither the border nor dest returns
\* true; dest keeps its tiles and gains, for every tile of the block, one
\* tile at the same absolute position whose type is the tile's drop().
C9_DropMerges ==
  (last.op = "drop" /\ ~Overlap(last.blk0, bd) /\ ~Overlap(last.blk0, last.pg0))
     => /\ last.ok = TRUE
        /\ pg.x = last.pg0.x /\ pg.y = last.pg0.y
        /\ Len(pg.tiles) = Len(last.pg0.tiles) + Len(last.blk0.tiles)
        /\ SubSeq(pg.tiles, 1, Len(last.pg0.tiles)) = last.pg0.tiles
        /\ \A i \in 1..Len(last.blk0.tiles) :
             /\ CountAt(pg, PosOf(last.blk0, i)) = 1
             /\ TypesAt(pg, PosOf(last.blk0, i))
                  = {Landed(last.blk0.tiles[i][3])}
        /\ blk = last.blk0

C9_Witness ==
  /\ last.op = "drop"
  /\ last.ok = TRUE
  /\ last.pg0.x # last.blk0.x
  /\ Len(last.blk0.tiles) = 3
  /\ last.blk0.tiles[1][3] = Killer(2)
  /\ TypesAt(pg, PosOf(last.blk0, 1)) = {Plain(0)}

----------------------------------------------------------------------------
(* Properties of the moves of the falling piece in the play loop *)

\* the keys that propose a move or a rotation of the falling piece
MoveOps == {"left", "right", "up", "down", "turn"}

\* the block the key op proposes in place of the falling block b
Proposal(op, b) ==
  CASE op = "left" -> [b EXCEPT !.x = @ - 1]
    [] op = "right" -> [b EXCEPT !.x = @ + 1]
    [] op = "up" -> [b EXCEPT !.y = @ - 1]
    [] op = "down" -> [b EXCEPT !.y = @ + 1]
    [] op = "turn" -> turned(b)

\* the proposal of the last key overlaps the border, or still overlaps the
\* playfield after Block::collide
Rejected ==
  LET mv == Proposal(last.op, last.blk0)
      c == Block_collide(mv, last.pg0)
  IN  Overlap(mv, bd) \/ Overlap(c[1], c[2])

\* C10: in the play loop a proposed move or rotation that overlaps the
\* border, or that still overlaps a playfield tile after Block::collide,
\* leaves the falling block and the playfield exactly as they were; the
\* key handling changes the playfield only with an accepted move, to the
\* playfield Block::collide returned.
C10_MoveAllOrNothing ==
  /\ last.op \in MoveOps =>
       /\ Rejected => (last.blk1 = last.blk0 /\ last.pg1 = last.pg0)
       /\ last.pg1 # last.pg0 =>
            LET c == Block_collide(Proposal(last.op, last.blk0), last.pg0)
            IN  ~Rejected /\ last.blk1 = c[1] /\ last.pg1 = c[2]
  /\ last.op \in {"swap", "other", "quit"} => last.pg1 = last.pg0
  /\ (last.op \in MoveOps \cup {"swap", "other", "quit"} /\ ~last.dropped) =>
       (blk = last.blk1 /\ pg = last.pg1)

\* a rejected move whose collision removed one playfield tile in the copy
\* and left another overlap
C10_Witness ==
  /\ last.op \in MoveOps
  /\ ~last.dropped
  /\ LET mv == Proposal(last.op, last.blk0)
         c == Block_collide(mv, last.pg0)
     IN  /\ ~Overlap(mv, bd)
         /\ Overlap(c[1], c[2])
         /\ c[2] # last.pg0
  /\ blk = last.blk0
  /\ pg = last.pg0

\* a move rejected by the border
C10_WitnessBorder ==
  /\ last.op \in MoveOps
  /\ Overlap(Proposal(last.op, last.blk0), bd)
  /\ blk = last.blk0
  /\ pg = last.pg0

\* an accepted move that changed the playfield
C10_WitnessAccepted ==
  /\ last.op \in MoveOps
  /\ ~last.dropped
  /\ ~Rejected
  /\ pg # last.pg0
  /\ blk.tiles # <<>>

----------------------------------------------------------------------------
(* Properties of the Killer in the play loop *)

\* tile i of the proposal mv is a Killer(2) on a Plain(0) of the playfield
\* p, and nothing else of mv overlaps the border or the playfield
KillerLands(mv, p, i) ==
  /\ mv.tiles[i][3] = Killer(2)
  /\ TypesAt(p, PosOf(mv, i)) = {Plain(0)}
  /\ ~Overlap(mv, bd)
  /\ \A j \in 1..Len(mv.tiles) : j # i => CountAt(p, PosOf(mv, j)) = 0

\* C11: a move or rotation that puts the Killer(2) of the falling piece on
\* a Plain(0) of the playfield is accepted: the piece is at the proposed
\* place with Killer(1) in that cell and its other tiles as before, and the
\* playfield has lost the tile of that cell and nothing else.  A piece
\* dropped with a Killer leaves Plain(0) at the Killer's position, and the
\* playfield never holds a Killer.
C11_KillerOnPlain ==
  /\ last.op \in MoveOps =>
       LET mv == Proposal(last.op, last.blk0)
       IN  \A i \in 1..Len(mv.tiles) :
             KillerLands(mv, last.pg0, i) =>
               /\ last.blk1.x = mv.x /\ last.blk1.y = mv.y
               /\ Len(last.blk1.tiles) = Len(mv.tiles)
               /\ TypesAt(last.blk1, PosOf(mv, i)) = {Killer(1)}
               /\ \A j \in 1..Len(mv.tiles) :
                    j # i => TypesAt(last.blk1, PosOf(mv, j))
                               = {mv.tiles[j][3]}
               /\ CountAt(last.pg1, PosOf(mv, i)) = 0
               /\ Len(last.pg1.tiles) = Len(last.pg0.tiles) - 1
               /\ \A k \in 1..Len(last.pg0.tiles) :
                    PosOf(last.pg0, k) # PosOf(mv, i) =>
                      TypesAt(last.pg1, PosOf(last.pg0, k))
                        = {last.pg0.tiles[k][3]}
  /\ (last.dropped /\ last.exploded = <<>>) =>
       \A i \in 1..Len(last.blk1.tiles) :
          last.blk1.tiles[i][3].k = "Killer" =>
            TypesAt(pg, PosOf(last.blk1, i)) = {Plain(0)}
  /\ \A k \in 1..Len(pg.tiles) : pg.tiles[k][3].k # "Killer"

\* the Killer(2) has just landed on a Plain(0) and the move was accepted
C11_WitnessMove ==
  /\ last.op \in MoveOps
  /\ ~last.dropped
  /\ \E i \in 1..Len(last.blk0.tiles) :
       /\ KillerLands(Proposal(last.op, last.blk0), last.pg0, i)
       /\ TypesAt(blk, PosOf(Proposal(last.op, last.blk0), i)) = {Killer(1)}
       /\ CountAt(pg, PosOf(Proposal(last.op, last.blk0), i)) = 0

\* a piece whose Killer(2) had become Killer(1) has been dropped
C11_Witness ==
  /\ last.dropped
  /\ \E i \in 1..Len(last.blk1.tiles) :
       /\ last.blk1.tiles[i][3] = Killer(1)
       /\ TypesAt(pg, PosOf(last.blk1, i)) = {Plain(0)}
  /\ Len(last.pg0.tiles) = 2

----------------------------------------------------------------------------
(* Properties of TileType::collide, seen through Block::collide of two     *)
(* blocks of one tile at the same place                                    *)

\* the tiles that met: T1 of the moving block, T2 of the stationary block
T1 == last.blk0.tiles[1][3]
T2 == last.pg0.tiles[1][3]

\* what the collision left at that place in the moving block (Left1) and
\* in the stationary block (Left2)
LeftAt(b, p) ==
  IF CountAt(b, p) = 0 THEN NoTile
  ELSE b.tiles[CHOOSE i \in 1..Len(b.tiles) : PosOf(b, i) = p][3]
Left1 == LeftAt(blk, PosOf(last.blk0, 1))
Left2 == LeftAt(pg, PosOf(last.blk0, 1))

Collided ==
  /\ last.op = "collide"
  /\ Len(blk.tiles) <= 1 /\ Len(pg.tiles) <= 1
  /\ blk.x = last.blk0.x /\ blk.y = last.blk0.y
  /\ pg.x = last.pg0.x /\ pg.y = last.pg0.y

\* the statement of C12 for every tile type on the other side
C12_KillerAnyOther ==
  last.op = "collide" =>
    /\ Collided
    /\ (T1 = Killer(1) \/ T2 = Killer(1)) =>
         (Left1 = NoTile /\ Left2 = NoTile)
    /\ (T1.k = "Killer" /\ T1.n > 1) =>
         (Left1 = Killer(T1.n - 1) /\ Left2 = NoTile)
    /\ (T2.k = "Killer" /\ T2.n > 1) =>
         (Left1 = NoTile /\ Left2 = Killer(T2.n - 1))

\* C12 (amended): when the Killer did not meet a Picker, is not on a
\* Spillage, and of two Killers is the moving one, Killer(1) leaves no
\* tile on either side and Killer(n), n > 1, leaves Killer(n - 1) on its
\* own side and no tile on the other.  On a Spillage or against a Picker
\* the rules of the Spillage and of the Picker apply instead.
C12_KillerCollide ==
  last.op = "collide" =>
    /\ Collided
    /\ (T1.k = "Killer" /\ T2.k \notin {"Spillage", "Picker"}) =>
         IF T1.n = 1 THEN Left1 = NoTile /\ Left2 = NoTile
         ELSE Left1 = Killer(T1.n - 1) /\ Left2 = NoTile
    /\ (T2.k = "Killer" /\ T1.k \notin {"Killer", "Picker"}) =>
         IF T2.n = 1 THEN Left1 = NoTile /\ Left2 = NoTile
         ELSE Left1 = NoTile /\ Left2 = Killer(T2.n - 1)
    /\ (T1.k = "Killer" /\ T2.k = "Spillage") =>
         /\ Left1 = NoTile
         /\ Left2 = IF T2.n = Glue THEN Plain(0) ELSE NoTile
    /\ (T1.k = "Killer" /\ T2.k = "Picker") =>
         (Left1 = NoTile /\ Left2 = Plain(0))
    /\ (T1.k = "Picker" /\ T2.k = "Killer") =>
         (Left1 = Plain(0) /\ Left2 = NoTile)

\* a stationary Killer with several charges has destroyed a moving tile
C12_Witness ==
  /\ last.op = "collide"
  /\ T2 = Killer(MaxKiller)
  /\ T1 = Permanent
  /\ Left1 = NoTile
  /\ Left2 = Killer(MaxKiller - 1)

\* a moving Killer(1) on Glue has left Plain(0)
C12_WitnessGlue ==
  /\ last.op = "collide"
  /\ T1 = Killer(1)
  /\ T2 = Spillage(Glue)
  /\ Left2 = Plain(0)

\* C13: a tile t moving onto Spillage(Acid) leaves no tile on either side;
\* moving onto Spillage(Glue) it leaves no tile on its own side and
\* t.drop() in place of the Spillage.
C13_Liquids ==
  last.op = "collide" =>
    /\ Collided
    /\ T2 = Spillage(Acid) => (Left1 = NoTile /\ Left2 = NoTile)
    /\ T2 = Spillage(Glue) => (Left1 = NoTile /\ Left2 = Landed(T1))

\* a Killer has been glued and the Glue is gone
C13_Witness ==
  /\ last.op = "collide"
  /\ T1 = Killer(2)
  /\ T2 = Spillage(Glue)
  /\ Left1 = NoTile
  /\ Left2 = Plain(0)
  /\ Len(pg.tiles) = 1

\* a tile has been dissolved by Acid
C13_WitnessAcid ==
  /\ last.op = "collide"
  /\ T1 = Permanent
  /\ T2 = Spillage(Acid)
  /\ blk.tiles = <<>>
  /\ pg.tiles = <<>>

\* the statement of C14: the side that held t gets t.drop(), the moving
\* Picker vanishes
C14_PickerLeavesTile ==
  last.op = "collide" =>
    /\ (T1 = Picker /\ T2.k # "Spillage") =>
         (Left1 = NoTile /\ Left2 = Landed(T2))
    /\ (T2 = Picker /\ T1.k \notin {"Spillage", "Picker"}) =>
         (Left1 = Landed(T1))

\* C14 (amended): when a Picker meets a non-liquid tile t, the side of
\* the Picker holds t.drop() and the side that held t holds no tile: a
\* moving Picker takes the stationary tile off the stationary block, and
\* a tile moving onto a stationary Picker vanishes from the moving block
\* and replaces the Picker.  Of two Pickers the moving one is the Picker.
C14_PickerPicks ==
  last.op = "collide" =>
    /\ Collided
    /\ (T1 = Picker /\ T2.k # "Spillage") =>
         (Left1 = Landed(T2) /\ Left2 = NoTile)
    /\ (T2 = Picker /\ T1.k \notin {"Spillage", "Picker"}) =>
         (Left1 = NoTile /\ Left2 = Landed(T1))

\* a moving Picker has picked up a stationary tile
C14_Witness ==
  /\ last.op = "collide"
  /\ T1 = Picker
  /\ T2 = Centerpiece(1)
  /\ Left1 = Centerpiece(1)
  /\ pg.tiles = <<>>
  /\ pg.x # 0

\* a Killer moved onto a stationary Picker
C14_WitnessStationary ==
  /\ last.op = "collide"
  /\ T2 = Picker
  /\ T1 = Killer(2)
  /\ blk.tiles = <<>>
  /\ Left2 = Plain(0)

----------------------------------------------------------------------------
(* Properties of level *)

\* 100 * (1 + 2 + ... + n)
Threshold(n) == 100 * ((n * (n + 1)) \div 2)

\* the statement of C16: level L from the score 100 * L * (L + 1) / 2 on
C16_ThresholdsReached ==
  last.op = "level" =>
    /\ Threshold(last.lvl) <= score
    /\ score < Threshold(last.lvl + 1)
    /\ score > 0 => level(score - 1) <= last.lvl

\* C16 (amended): level(score) is non-decreasing in score and is the
\* smallest L with score <= 100 * L * (L + 1) / 2: it is 0 only for the
\* score 0, and L >= 1 exactly when the score is above the threshold of
\* L - 1 and at most the threshold of L (1 for 1..100, 2 for 101..300, 3
\* for 301..600, 4 for 601..1000).
C16_LevelSteps ==
  last.op = "level" =>
    /\ last.lvl = 0 <=> score = 0
    /\ score <= Threshold(last.lvl)
    /\ last.lvl > 0 => Threshold(last.lvl - 1) < score
    /\ score > 0 => level(score - 1) <= last.lvl

\* the first score above a threshold
C16_Witness ==
  /\ last.op = "level"
  /\ score = 301
  /\ last.lvl = 3

\* a score on a threshold
C16_WitnessOnThreshold ==
  /\ last.op = "level"
  /\ score = 1000
  /\ last.lvl = 4

----------------------------------------------------------------------------
(* Properties of the score and the multiplier in the play loop *)

AtLeastZero(v) == IF v < 0 THEN 0 ELSE v

\* C15: an iteration that dropped the piece adds hits times the multiplier
\* it began with to the score, and the multiplier after the delta of the
\* explosion is max(0, multiplier + dmult), never below 0; the multiplier
\* the iteration ends with is that one, or one step of the multiplier
\* timer away from it.
C15_ScoreAndMultiplier ==
  last.dropped =>
    /\ score = last.score0 + last.hits * last.mult0
    /\ last.mult1 = AtLeastZero(last.mult0 + last.dmult)
    /\ last.mult1 >= 0
    /\ \/ multiplier = last.mult1
       \/ /\ pc = "play"
          /\ last.mult0 # 1
          /\ multiplier = IF last.mult1 > 1 THEN last.mult1 - 1
                          ELSE last.mult1 + 1

\* the multiplier 3 met the delta -5
C15_Witness ==
  /\ last.dropped
  /\ last.mult0 = 3
  /\ last.dmult = 0 - 5
  /\ last.mult1 = 0
  /\ last.hits = 9
  /\ score = last.score0 + 27

\* a positive delta on the multiplier 0
C15_WitnessPlus ==
  /\ last.dropped
  /\ last.mult0 = 0
  /\ last.dmult = 1
  /\ last.hits > 0
  /\ score = last.score0
  /\ multiplier = 1

----------------------------------------------------------------------------
(* Invariant of the blocks of a game *)

OnePerCell(b) ==
  \A i \in 1..Len(b.tiles) : \A j \in 1..Len(b.tiles) :
     i # j => PosOf(b, i) # PosOf(b, j)

\* C17: in every state of a game the playfield and the falling piece each
\* hold at most one tile per absolute position.
C17_OneTilePerCell ==
  /\ pg.x = 0 /\ pg.y = 0
  /\ OnePerCell(pg)
  /\ OnePerCell(blk)

\* two Flasks have exploded next to each other and their spills, which
\* were aimed at common cells, have settled
C17_Witness ==
  /\ last.dropped
  /\ Len(last.exploded) = 9
  /\ \E i \in 1..Len(pg.tiles) : pg.tiles[i][3] = Spillage(Acid)
  /\ \E i \in 1..Len(pg.tiles) : pg.tiles[i][3] = Spillage(Glue)
  /\ Len(pg.tiles) = 8

\* a Killer has removed a playfield tile and the piece has moved on
C17_WitnessMove ==
  /\ last.op \in MoveOps
  /\ ~last.dropped
  /\ Len(pg.tiles) = 7
  /\ blk.tiles # <<>>
  /\ blk.x # 2

----------------------------------------------------------------------------
(* Properties of Block::explode: which tiles can explode *)

Inert(tt) == tt.k \in {"Permanent", "Picker", "Killer", "Spillage"}
PlainClass(tt) == tt.k \in {"Plain", "Flask", "Plus", "Minus"}
PlainOrCentre(tt) == PlainClass(tt) \/ tt.k = "Centerpiece"
PlainCentreOrWhopper(tt) == PlainOrCentre(tt) \/ tt.k = "Whopper"

\* the absolute positions at most r away from p in both directions
SquareAround(p, r) ==
  {<<p[1] + dx, p[2] + dy>> : dx \in (0 - r)..r, dy \in (0 - r)..r}

\* every position of S holds tiles of b, all of them of the class P
AllHold(b, S, P(_)) ==
  \A q \in S : CountAt(b, q) > 0 /\ \A u \in TypesAt(b, q) : P(u)

\* position p lies in a 3x3 of b centred on a Centerpiece whose nine
\* cells hold plain-class or Centerpiece tiles
InCentrepieceSquare(b, p) ==
  \E c \in 1..Len(b.tiles) :
     /\ b.tiles[c][3].k = "Centerpiece"
     /\ p \in SquareAround(PosOf(b, c), 1)
     /\ AllHold(b, SquareAround(PosOf(b, c), 1), PlainOrCentre)

\* position p lies in a 5x5 of b centred on a Whopper whose 25 cells hold
\* plain-class, Centerpiece or Whopper tiles
InWhopperSquare(b, p) ==
  \E c \in 1..Len(b.tiles) :
     /\ b.tiles[c][3].k = "Whopper"
     /\ p \in SquareAround(PosOf(b, c), 2)
     /\ AllHold(b, SquareAround(PosOf(b, c), 2), PlainCentreOrWhopper)

\* the tiles of kind k that explode() did not report are still in the
\* block, with their offsets and types
UnreportedKept(k) ==
  \A i \in 1..Len(last.pg0.tiles) :
     (last.pg0.tiles[i][3].k = k
        /\ Occurrences(last.exploded, last.pg0.tiles[i]) = 0)
       => Occurrences(pg.tiles, last.pg0.tiles[i]) > 0

\* C18: explode() reports no Permanent, Picker, Killer or Spillage tile as
\* exploded and keeps every such tile with its offset and type; a tile
\* whose explode shape holds such a tile, itself included, does not
\* detonate.
C18_InertTiles ==
  last.op = "explode" =>
    /\ \A e \in 1..Len(last.exploded) : ~Inert(last.exploded[e][3])
    /\ \A i \in 1..Len(last.pg0.tiles) :
         Inert(last.pg0.tiles[i][3]) =>
           Occurrences(pg.tiles, last.pg0.tiles[i]) > 0
    /\ \A i \in 1..Len(last.pg0.tiles) :
         (\E q \in ShapeAround(last.pg0.tiles[i][3], PosOf(last.pg0, i)) :
            \E u \in TypesAt(last.pg0, q) : Inert(u))
           => ~Detonates(last.pg0, i)

\* a Killer or a Picker has stayed next to an explosion
C18_Witness ==
  /\ last.op = "explode"
  /\ Len(last.exploded) >= 9
  /\ \E i \in 1..Len(last.pg0.tiles) :
       /\ last.pg0.tiles[i][3].k \in {"Killer", "Picker"}
       /\ Occurrences(pg.tiles, last.pg0.tiles[i]) = 1
       /\ \E e \in 1..Len(last.exploded) :
            PosOf(last.pg0, i) \in
              SquareAround(<<last.pg0.x + last.exploded[e][1],
                             last.pg0.y + last.exploded[e][2]>>, 1)

C19_WitnessWhopper ==
  /\ last.op = "explode"
  /\ \E e \in 1..Len(last.exploded) :
       LET p == <<last.pg0.x + last.exploded[e][1],
                  last.pg0.y + last.exploded[e][2]>>
       IN  /\ last.exploded[e][3].k = "Centerpiece"
           /\ InWhopperSquare(last.pg0, p)
           /\ ~InCentrepieceSquare(last.pg0, p)

\* C20: a Whopper(n) is exploded only when it lies in a 5x5 whose centre
\* is a Whopper and whose 25 cells all hold plain-class, Centerpiece or
\* Whopper tiles, and then its position holds Centerpiece(n); otherwise
\* explode() keeps it as it is.
C20_WhopperExplodes ==
  last.op = "explode" =>
    /\ \A e \in 1..Len(last.exploded) :
         last.exploded[e][3].k = "Whopper" =>
           LET p == <<last.pg0.x + last.exploded[e][1],
                      last.pg0.y + last.exploded[e][2]>>
           IN  /\ InWhopperSquare(last.pg0, p)
               /\ TypesAt(pg, p) = {Centerpiece(last.exploded[e][3].n)}
               /\ CountAt(pg, p) = 1
    /\ UnreportedKept("Whopper")

\* a Whopper(2) has exploded its 5x5 and is a Centerpiece(2) now
C20_Witness ==
  /\ last.op = "explode"
  /\ Len(last.exploded) = 25
  /\ \E e \in 1..Len(last.exploded) :
       /\ last.exploded[e][3] = Whopper(2)
       /\ TypesAt(pg, <<last.pg0.x + last.exploded[e][1],
                        last.pg0.y + last.exploded[e][2]>>)
            = {Centerpiece(2)}

\* a Whopper in a full 3x3 that is not part of a full 5x5 has stayed
C20_WitnessKept ==
  /\ last.op = "explode"
  /\ Len(last.exploded) >= 9
  /\ \E i \in 1..Len(last.pg0.tiles) :
       /\ last.pg0.tiles[i][3].k = "Whopper"
       /\ AllHold(last.pg0, SquareAround(PosOf(last.pg0, i), 1),
                  PlainCentreOrWhopper)
       /\ Occurrences(pg.tiles, last.pg0.tiles[i]) = 1

----------------------------------------------------------------------------
(* Specification of the wearing down of shield tiles: Block::explode is    *)
(* called again and again on a block that holds a solid 3x3 of Plain(n)    *)
(* and nothing else.                                                        *)

ShieldSquares ==
  {Rebased(a, RectTiles(3, 3, Plain(n), Keep, Keep), o[1], o[2]) :
     a \in Anchors, o \in (0..1) \X (0..1), n \in 0..MaxShield}

InitShield ==
  /\ pg \in ShieldSquares
  /\ blk = Block_new
  /\ next = Block_new
  /\ score = 0
  /\ multiplier = 1
  /\ pc = "play"
  /\ last = [NoLast EXCEPT !.start = pg]
  /\ grid = NoGrid

\* pg.explode(), one more call of the run
ExplodeCall ==
  /\ last.calls < MaxShield + 2
  /\ LET r == Block_explode(pg)
     IN  /\ pg' = r.self
         /\ last' = [NoLast EXCEPT !.op = "explode", !.prev = last.op,
                                    !.pg0 = pg, !.exploded = r.exploded,
                                    !.hits = r.hits, !.dmult = r.dmult,
                                    !.start = last.start,
                                    !.calls = last.calls + 1]
  /\ UNCHANGED <<grid, blk, next, score, multiplier, pc>>

NextShield == ExplodeCall

SpecShield == InitShield /\ [][NextShield]_vars

\* block b holds a solid 3x3 of Plain(n) and nothing else
IsShieldSquare(b, n) ==
  /\ Len(b.tiles) = 9
  /\ \A i \in 1..9 : b.tiles[i][3] = Plain(n)
  /\ \E p \in {PosOf(b, i) : i \in 1..9} :
       {PosOf(b, i) : i \in 1..9} =
         {<<p[1] + dx, p[2] + dy>> : dx \in 0..2, dy \in 0..2}

\* C21: an isolated solid 3x3 of Plain(n) is, after k <= n consecutive
\* explode() calls, the same square of Plain(n - k): every tile at the
\* position it had, the anchor as it was; after the call n + 1 (and
\* any further one) no tile is left.
C21_ShieldWearsOff ==
  LET s == last.start
      k == last.calls
  IN  \A n \in 0..MaxShield :
        IsShieldSquare(s, n) =>
          /\ pg.x = s.x /\ pg.y = s.y
          /\ k <= n =>
               /\ Len(pg.tiles) = 9
               /\ \A i \in 1..9 :
                    /\ TypesAt(pg, PosOf(s, i)) = {Plain(n - k)}
                    /\ CountAt(pg, PosOf(s, i)) = 1
          /\ k > n => pg.tiles = <<>>

\* the square of Plain(2) has gone with the third call, which removed the
\* Plain(0) the second call had left
C21_Witness ==
  /\ IsShieldSquare(last.start, 2)
  /\ last.calls = 3
  /\ IsShieldSquare(last.pg0, 0)
  /\ last.prev = "explode"
  /\ pg.tiles = <<>>

\* the first call on a square of Plain(2) has left a square of Plain(1)
C21_WitnessWorn ==
  /\ IsShieldSquare(last.start, 2)
  /\ last.calls = 1
  /\ IsShieldSquare(pg, 1)

----------------------------------------------------------------------------
(* Specification of the drawing of a tile type: TileType::new_random is    *)
(* called with a score of 0, 50, 100, ... which passes through the levels  *)
(* 0 to 8.                                                                  *)

InitNewTile ==
  /\ score \in {50 * i : i \in 0..MaxScoreSteps}
  /\ pg = Block_new
  /\ blk = Block_new
  /\ next = Block_new
  /\ multiplier = 1
  /\ pc = "play"
  /\ last = NoLast
  /\ grid = NoGrid

\* TileType::new_random(score)
NewTile ==
  /\ last.op # "new_random"
  /\ \E tt \in TileType_new_random(score) :
       last' = [NoLast EXCEPT !.op = "new_random", !.score0 = score,
                              !.lvl = level(score), !.tile = tt]
  /\ UNCHANGED <<grid, pg, blk, next, score, multiplier, pc>>

NextNewTile == NewTile

SpecNewTile == InitNewTile /\ [][NextNewTile]_vars

\* C22: new_random(score) returns Plus or Minus only at level(score) >= 1,
\* Plain(n) with n > 0 only at level >= 2 and then with 1 <= n <= level,
\* Flask only at level >= 3, Killer only at level >= 4, Centerpiece only
\* at level >= 5, Whopper only at level >= 6, Permanent only at
\* level >= 8; at level 0 it returns only Plain(0) or Picker, and it never
\* returns Spillage.
C22_TileGates ==
  last.op = "new_random" =>
    LET t == last.tile
        lvl == last.lvl
    IN  /\ t.k \in {"Plus", "Minus"} => lvl >= 1
        /\ (t.k = "Plain" /\ t.n > 0) => (lvl >= 2 /\ 1 <= t.n /\ t.n <= lvl)
        /\ t.k = "Flask" => lvl >= 3
        /\ t.k = "Killer" => lvl >= 4
        /\ t.k = "Centerpiece" => lvl >= 5
        /\ t.k = "Whopper" => lvl >= 6
        /\ t.k = "Permanent" => lvl >= 8
        /\ lvl = 0 => t \in {Plain(0), Picker}
        /\ t.k # "Spillage"
        /\ t # NoTile

\* a Permanent is drawn at level 8
C22_Witness ==
  /\ last.op = "new_random"
  /\ last.tile = Permanent
  /\ last.lvl = 8

\* at level 4 a Killer is drawn, and a Plain(4)
C22_WitnessKiller ==
  /\ last.op = "new_random"
  /\ last.lvl = 4
  /\ last.tile \in {Killer(1), Plain(4)}

----------------------------------------------------------------------------
(* Specification of the turning of a piece: Block::turned is applied again *)
(* and again to a piece of one of the seven shapes.                         *)

InitTurn ==
  /\ blk \in {moved_to(p, a[1], a[2]) :
                p \in DropPieces, a \in {<<2, 2>>, <<-1, 3>>}}
  /\ pg = Block_new
  /\ next = Block_new
  /\ score = 0
  /\ multiplier = 1
  /\ pc = "play"
  /\ last = [NoLast EXCEPT !.start = blk]
  /\ grid = NoGrid

\* blk = blk.turned(), one more call of the run
TurnCall ==
  /\ last.calls < MaxTurns
  /\ blk' = turned(blk)
  /\ last' = [NoLast EXCEPT !.op = "turned", !.prev = last.op,
                            !.blk0 = blk, !.start = last.start,
                            !.calls = last.calls + 1]
  /\ UNCHANGED <<grid, pg, next, score, multiplier, pc>>

NextTurn == TurnCall

SpecTurn == InitTurn /\ [][NextTurn]_vars

\* the set of the (offset, tile type) entries of block b
Entries(b) == {b.tiles[i] : i \in 1..Len(b.tiles)}

\* C23: a block turned four times has the anchor and the set of
\* (offset, tile type) entries of the block the turns started with, and
\* as many entries.
C23_FourTurns ==
  (last.op = "turned" /\ last.calls = 4) =>
    /\ blk.x = last.start.x
    /\ blk.y = last.start.y
    /\ Entries(blk) = Entries(last.start)
    /\ Len(blk.tiles) = Len(last.start.tiles)

\* the fourth turn of a piece of three tiles with a Killer that no single
\* turn leaves as it is
C23_Witness ==
  /\ last.op = "turned"
  /\ last.calls = 4
  /\ Len(last.start.tiles) = 3
  /\ \E i \in 1..3 : last.start.tiles[i][3] = Killer(2)
  /\ Entries(last.blk0) # Entries(last.start)
  /\ Entries(turned(last.start)) # Entries(last.start)
  /\ Entries(turned(turned(last.start))) # Entries(last.start)

----------------------------------------------------------------------------
(* Block::intersects, both ways round *)

\* C24: a.intersects(b) == b.intersects(a): for the moving block and the
\* destination, whose anchors differ, and for the moving block and the
\* border, in every state of a piece moved and turned about and dropped.
C24_IntersectsSymmetric ==
  /\ intersects(blk, pg) = intersects(pg, blk)
  /\ intersects(blk, bd) = intersects(bd, blk)
  /\ intersects(pg, bd) = intersects(bd, pg)

\* the piece and the destination, held at different anchors, share a cell
\* but not all their cells, and each finds the other
C24_Witness ==
  /\ <<blk.x, blk.y>> # <<pg.x, pg.y>>
  /\ intersects(blk, pg)
  /\ intersects(pg, blk)
  /\ \E i \in 1..Len(blk.tiles) : CountAt(pg, PosOf(blk, i)) = 0
  /\ \E j \in 1..Len(pg.tiles) : CountAt(blk, PosOf(pg, j)) = 0

\* the piece and the destination share no cell, and neither finds the
\* other
C24_WitnessApart ==
  /\ ~intersects(blk, pg)
  /\ ~intersects(pg, blk)
  /\ ~Overlap(blk, pg)
  /\ Len(pg.tiles) = 4
  /\ Len(blk.tiles) = 3

----------------------------------------------------------------------------
(* Specification of the line compositor: one operation (paint, clear,      *)
(* paint_decoration or paint_wall) on a Grid of GridW x GridH whose Fields *)
(* all hold the same content, with coordinates from one before the first   *)
(* column and row to one after the last, by either build.                  *)

GridFills ==
  {Field_None, Field_Decoration(46),
   Field_Drawing(MkDrawing(Thin, Thin, Thin, Thin)),
   Field_Drawing(MkDrawing(Thik, Thin, None, Thik)),
   Field_Drawing(MkDrawing(None, Thik, Thin, None))}

\* the Grid whose Fields all are f
FilledGrid(f) ==
  [Grid_new(GridW, GridH) EXCEPT
     !.grid = [i \in 1..((GridW + 1) * (GridH + 1)) |-> f]]

\* "a", "a\0b" and "abc"
DecorationStrs == {<<97>>, <<97, NUL, 98>>, <<97, 98, 99>>}

InitGrid ==
  /\ grid \in {FilledGrid(f) : f \in GridFills}
  /\ pg = Block_new
  /\ blk = Block_new
  /\ next = Block_new
  /\ score = 0
  /\ multiplier = 1
  /\ pc = "play"
  /\ last = NoLast

\* what an operation of the Grid that returned r leaves
GridOp(op, args, build, r) ==
  /\ grid' = r.g
  /\ pc' = IF r.panic THEN "panic" ELSE pc
  /\ last' = [NoLast EXCEPT !.op = op, !.grid0 = grid, !.args = args,
                            !.build = build, !.panic = r.panic]
  /\ UNCHANGED <<pg, blk, next, score, multiplier>>

\* grid.paint(x, y, d, p)
Paint ==
  /\ last.op = "init"
  /\ \E x \in (0 - 1)..(GridW + 1), y \in (0 - 1)..(GridH + 1),
        d \in Directions, p \in Pens, build \in Builds :
       GridOp("paint", <<x, y, d, p>>, build,
              Grid_paint(grid, x, y, d, p, build))

\* grid.clear(x, y, w, h)
Clear ==
  /\ last.op = "init"
  /\ \E x \in (0 - 1)..GridW, y \in (0 - 1)..GridH,
        w \in (0 - 1)..MaxClear, h \in (0 - 1)..MaxClear, build \in Builds :
       GridOp("clear", <<x, y, w, h>>, build,
              Grid_clear(grid, x, y, w, h, build))

\* grid.paint_decoration(x, y, s)
PaintDecoration ==
  /\ last.op = "init"
  /\ \E x \in (0 - 1)..(GridW + 1), y \in (0 - 1)..(GridH + 1),
        s \in DecorationStrs, build \in Builds :
       GridOp("paint_decoration", <<x, y, s>>, build,
              Grid_paint_decoration(grid, x, y, s, build))

\* grid.paint_wall(x0, y0, len, d, inclusive, p)
PaintWall ==
  /\ last.op = "init"
  /\ \E x0 \in 0..GridW, y0 \in 0..GridH, len \in (0 - 1)..MaxWall,
        d \in Directions, inclusive \in BOOLEAN, p \in {Thin, Thik},
        build \in Builds :
       GridOp("paint_wall", <<x0, y0, len, d, inclusive, p>>, build,
              Grid_paint_wall(grid, x0, y0, len, d, inclusive, p, build))

NextGrid ==
  \/ Paint
  \/ Clear
  \/ PaintDecoration
  \/ PaintWall

SpecGrid == InitGrid /\ [][NextGrid]_vars

----------------------------------------------------------------------------
(* Vocabulary of the statements about the Grid *)

\* (x, y) is a coordinate of Grid g
InGrid(g, x, y) == x \in 0..g.w /\ y \in 0..g.h

\* the coordinates of Grid g
CellsOf(g) == (0..g.w) \X (0..g.h)

\* the Field of Grid g at the coordinate c, rows one after the other
CellOf(g, c) == g.grid[c[2] * (g.w + 1) + c[1] + 1]

\* the pen of direction d of the FieldDrawing dw
PenOf(dw, d) ==
  CASE d = Up -> dw.up
    [] d = Right -> dw.right
    [] d = Down -> dw.down
    [] d = Left -> dw.left

\* the coordinate next to c in direction d (rows grow downwards)
Towards(c, d) ==
  CASE d = Up -> <<c[1], c[2] - 1>>
    [] d = Right -> <<c[1] + 1, c[2]>>
    [] d = Down -> <<c[1], c[2] + 1>>
    [] d = Left -> <<c[1] - 1, c[2]>>

\* a Drawing all of whose pens are None
AllNone(dw) == \A d \in Directions : PenOf(dw, d) = None

\* C25: Pen::combine is commutative and idempotent over the three pens,
\* combine(None, p) = p and combine(Thik, p) = Thik for every p; and the
\* pen a paint leaves in the direction it painted on a Drawing is the
\* combination of the pen that was there and the pen painted, in either
\* order.
C25_PenCombine ==
  /\ \A p \in Pens, q \in Pens : Pen_combine(p, q) = Pen_combine(q, p)
  /\ \A p \in Pens :
       /\ Pen_combine(p, p) = p
       /\ Pen_combine(None, p) = p
       /\ Pen_combine(Thik, p) = Thik
  /\ (/\ last.op = "paint"
      /\ InGrid(last.grid0, last.args[1], last.args[2])
      /\ CellOf(last.grid0, <<last.args[1], last.args[2]>>).f = FDrawing) =>
       LET c == <<last.args[1], last.args[2]>>
           a == PenOf(CellOf(last.grid0, c).dw, last.args[3])
           p == last.args[4]
           r == PenOf(CellOf(grid, c).dw, last.args[3])
       IN  /\ r = Pen_combine(p, a)
           /\ r = Pen_combine(a, p)
           /\ a = p => r = p
           /\ a = None => r = p
           /\ p = None => r = a
           /\ (a = Thik \/ p = Thik) => r = Thik

\* a Thin pen was painted where a Thik pen was, which stays
C25_Witness ==
  /\ last.op = "paint"
  /\ ~last.panic
  /\ InGrid(last.grid0, last.args[1], last.args[2])
  /\ LET c == <<last.args[1], last.args[2]>>
     IN  /\ CellOf(last.grid0, c).f = FDrawing
         /\ PenOf(CellOf(last.grid0, c).dw, last.args[3]) = Thik
         /\ last.args[4] = Thin
         /\ PenOf(CellOf(grid, c).dw, last.args[3]) = Thik

\* the glyph of dw is that of an arm, and the blank only for four None
GlyphDefined(dw) ==
  LET g == render_field_drawing(dw)
  IN  /\ g # NoGlyph
      /\ g = Blank <=> AllNone(dw)

\* C26: render_field_drawing returns the glyph of an arm for each of the
\* 81 four-tuples of pens, and for the Drawing of every Field that paint,
\* paint_wall and clear leave in the Grid, and the blank only for
\* (None, None, None, None).
C26_GlyphTotal ==
  /\ last.op = "init" =>
       \A u \in Pens, r \in Pens, d \in Pens, l \in Pens :
          GlyphDefined(MkDrawing(u, r, d, l))
  /\ \A c \in CellsOf(grid) :
       CellOf(grid, c).f = FDrawing => GlyphDefined(CellOf(grid, c).dw)

\* a wall left a Field with pens of both weights, which has a glyph
C26_Witness ==
  /\ last.op = "paint_wall"
  /\ ~last.panic
  /\ \E c \in CellsOf(grid) :
       /\ CellOf(grid, c).f = FDrawing
       /\ \E d \in Directions : PenOf(CellOf(grid, c).dw, d) = Thik
       /\ \E d \in Directions : PenOf(CellOf(grid, c).dw, d) = Thin
       /\ \E d \in Directions : PenOf(CellOf(grid, c).dw, d) = None
       /\ CellOf(grid, c) # CellOf(last.grid0, c)
       /\ render_field_drawing(CellOf(grid, c).dw) \notin {NoGlyph, Blank}

\* a clear left a Drawing of four None, whose glyph is the blank
C26_WitnessBlank ==
  /\ last.op = "clear"
  /\ ~last.panic
  /\ \E c \in CellsOf(grid) :
       /\ CellOf(grid, c).f = FDrawing
       /\ AllNone(CellOf(grid, c).dw)
       /\ render_field_drawing(CellOf(grid, c).dw) = Blank

\* the Grid after the paints of ps, a sequence of <<d, p>>, on the
\* coordinate c of Grid g
RECURSIVE Painted(_, _, _)
Painted(g, c, ps) ==
  IF ps = <<>> THEN g
  ELSE Painted(Grid_paint(g, c[1], c[2], ps[1][1], ps[1][2], "debug").g,
               c, Tail(ps))

\* C27: Grid::paint(x, y, d, p) on a coordinate of the Grid makes an Empty
\* or Decoration Field a Drawing whose direction d is p and whose other
\* directions are None; in a Drawing it combines p into direction d and
\* leaves the other three directions as they were; every other Field is
\* unchanged; and two or three paints on the Field give the same Field in
\* any order.
C27_PaintOneDirection ==
  (last.op = "paint" /\ InGrid(last.grid0, last.args[1], last.args[2])) =>
    LET c == <<last.args[1], last.args[2]>>
        d == last.args[3]
        p == last.args[4]
        f0 == CellOf(last.grid0, c)
        f == CellOf(grid, c)
        paints == Directions \X Pens
    IN  /\ ~last.panic
        /\ f.f = FDrawing
        /\ f.c = 0
        /\ f0.f # FDrawing =>
             \A e \in Directions :
                PenOf(f.dw, e) = IF e = d THEN p ELSE None
        /\ f0.f = FDrawing =>
             \A e \in Directions :
                PenOf(f.dw, e) = IF e = d THEN Pen_combine(PenOf(f0.dw, e), p)
                                 ELSE PenOf(f0.dw, e)
        /\ grid.w = last.grid0.w /\ grid.h = last.grid0.h
        /\ Len(grid.grid) = Len(last.grid0.grid)
        /\ \A o \in CellsOf(grid) \ {c} :
             CellOf(grid, o) = CellOf(last.grid0, o)
        /\ \A a \in paints :
             /\ Painted(last.grid0, c, <<a, <<d, p>>>>) = Painted(grid, c, <<a>>)
             /\ \A b \in paints :
                  Painted(grid, c, <<a, b>>) = Painted(grid, c, <<b, a>>)

\* a Thik pen was painted to the left in a Drawing whose other directions
\* hold pens, which stay
C27_Witness ==
  /\ last.op = "paint"
  /\ ~last.panic
  /\ InGrid(last.grid0, last.args[1], last.args[2])
  /\ last.args[3] = Left
  /\ last.args[4] = Thik
  /\ CellOf(last.grid0, <<last.args[1], last.args[2]>>) =
       Field_Drawing(MkDrawing(Thin, Thin, Thin, Thin))
  /\ CellOf(grid, <<last.args[1], last.args[2]>>) =
       Field_Drawing(MkDrawing(Thin, Thin, Thin, Thik))

\* a pen was painted on a Decoration, which has gone
C27_WitnessDecoration ==
  /\ last.op = "paint"
  /\ ~last.panic
  /\ InGrid(last.grid0, last.args[1], last.args[2])
  /\ CellOf(last.grid0, <<last.args[1], last.args[2]>>).f = FDecoration
  /\ CellOf(grid, <<last.args[1], last.args[2]>>) =
       Field_Drawing(FieldDrawing_new_from(Down, Thin))

\* the coordinates of the rectangle of clear(x, y, w, h)
RectOf(x, y, w, h) == (x..(x + w - 1)) \X (y..(y + h - 1))

\* the coordinates strictly inside the rectangle
InsideOf(x, y, w, h) == ((x + 1)..(x + w - 2)) \X ((y + 1)..(y + h - 2))

\* the Field f0 of the coordinate c on the edge of the rectangle R has
\* become f: a Drawing has lost the pens that face a coordinate of R and
\* kept the pens that face out of R, any other Field is Empty
EdgeCleared(f0, f, c, R) ==
  IF f0.f = FDrawing
  THEN /\ f.f = FDrawing
       /\ \A d \in Directions :
            PenOf(f.dw, d) = IF Towards(c, d) \in R THEN None
                             ELSE PenOf(f0.dw, d)
  ELSE f = Field_None

\* what clear(x, y, w, h) has done to the Grid g0, which is now g
ClearedRect(g0, g, x, y, w, h) ==
  LET R == RectOf(x, y, w, h)
      I == InsideOf(x, y, w, h)
  IN  /\ g.w = g0.w /\ g.h = g0.h
      /\ Len(g.grid) = Len(g0.grid)
      /\ \A c \in CellsOf(g0) :
           IF c \in I THEN CellOf(g, c) = Field_None
           ELSE IF c \in R THEN EdgeCleared(CellOf(g0, c), CellOf(g, c), c, R)
           ELSE CellOf(g, c) = CellOf(g0, c)

\* clear(x, y, w, h) was called with a rectangle of coordinates of the
\* Grid
ClearInGrid ==
  /\ last.op = "clear"
  /\ last.args[3] >= 0
  /\ last.args[4] >= 0
  /\ RectOf(last.args[1], last.args[2], last.args[3], last.args[4])
       \subseteq CellsOf(last.grid0)

\* C28: after Grid::clear(x, y, w, h) every Field strictly inside the
\* rectangle is Empty, every Field on its edge has lost its pens that face
\* into the rectangle (towards a coordinate of the rectangle) and any
\* decoration and has kept its pens that face out of it, and every Field
\* outside the rectangle is unchanged.
C28_ClearKeepsOutside ==
  ClearInGrid =>
    /\ ~last.panic
    /\ ClearedRect(last.grid0, grid, last.args[1], last.args[2],
                   last.args[3], last.args[4])

\* the same for the rectangles that are at least two wide and two high
C28_AtLeastTwoByTwo ==
  (ClearInGrid /\ last.args[3] >= 2 /\ last.args[4] >= 2) =>
    /\ ~last.panic
    /\ ClearedRect(last.grid0, grid, last.args[1], last.args[2],
                   last.args[3], last.args[4])

\* a rectangle of 3x3 of Drawings with four pens was cleared
C28_Witness ==
  /\ ClearInGrid
  /\ ~last.panic
  /\ last.args[3] = 3
  /\ last.args[4] = 3
  /\ CellOf(last.grid0, <<0, 0>>) =
       Field_Drawing(MkDrawing(Thin, Thin, Thin, Thin))
  /\ CellOf(grid, <<last.args[1], last.args[2]>>) =
       Field_Drawing(MkDrawing(Thin, None, None, Thin))
  /\ CellOf(grid, <<last.args[1] + 1, last.args[2] + 1>>) = Field_None

\* a coordinate that the operation addresses: the one of a paint, the
\* ones of the chars other than NUL of a paint_decoration, the ones of
\* the rectangle of a clear
Addressed ==
  CASE last.op = "paint" -> {<<last.args[1], last.args[2]>>}
    [] last.op = "paint_decoration" ->
         {<<last.args[1] + n - 1, last.args[2]>> :
            n \in {i \in 1..Len(last.args[3]) : last.args[3][i] # NUL}}
    [] last.op = "clear" ->
         RectOf(last.args[1], last.args[2], last.args[3], last.args[4])
    [] OTHER -> {}

\* C29: a paint, paint_decoration or clear that addresses a coordinate
\* outside [0,w]x[0,h] ends in a panic.
C29_OutsideIsFatal ==
  (/\ last.op \in {"paint", "paint_decoration", "clear"}
   /\ Addressed \ CellsOf(last.grid0) # {}) => last.panic

\* a paint one column after the last, in a row other than the last, has
\* painted the first Field of the next row instead, in either build
C29_Redirected ==
  /\ last.op = "paint"
  /\ last.args[1] = last.grid0.w + 1
  /\ last.args[2] \in 0..(last.grid0.h - 1)
  /\ ~last.panic
  /\ CellOf(grid, <<0, last.args[2] + 1>>) #
       CellOf(last.grid0, <<0, last.args[2] + 1>>)

\* an operation all of whose coordinates are in a row after the last and
\* in no negative column ends in a panic in either build, and so does, in
\* the debug build, one all of whose coordinates have a negative column
\* or row
C29_FatalCases ==
  (/\ last.op \in {"paint", "paint_decoration", "clear"}
   /\ Addressed # {}
   /\ \/ \A c \in Addressed : c[2] > last.grid0.h /\ c[1] >= 0
      \/ /\ last.build = "debug"
         /\ \A c \in Addressed : c[1] < 0 \/ c[2] < 0) => last.panic

----------------------------------------------------------------------------
(* Specification of a collision of two blocks of several tiles: a piece of *)
(* one of the seven shapes is moved and turned about and then collided     *)
(* with a stationary block of 2x2 tiles held at another anchor.            *)

MeetPieces ==
  {PieceOf(Shapes[s], f, Plain(0)) :
     s \in 1..Len(Shapes), f \in {Killer(2), Picker, Flask(Glue)}}

\* 2x2 tiles at the positions (2,2) to (3,3)
MeetTiles ==
  {<< <<0, 0, a>>, <<1, 0, Spillage(Glue)>>, <<0, 1, Picker>>,
      <<1, 1, b>> >> :
     a \in {Plain(1), Flask(Acid)}, b \in {Permanent, Spillage(Acid)}}

InitMeet ==
  /\ blk \in {moved_to(p, 2, 2) : p \in MeetPieces}
  /\ pg \in {Rebased(a, t, 2, 2) : a \in Anchors, t \in MeetTiles}
  /\ next = Block_new
  /\ score = 0
  /\ multiplier = 1
  /\ pc = "play"
  /\ last = NoLast
  /\ grid = NoGrid

\* nothing more once the blocks have collided
NextMeet ==
  \/ /\ last.op # "collide"
     /\ \E d \in {<<-1, 0>>, <<1, 0>>, <<0, -1>>, <<0, 1>>} :
          Moved(d[1], d[2])
  \/ /\ last.op # "collide"
     /\ Turned
  \/ Collide

SpecMeet == InitMeet /\ [][NextMeet]_vars

\* the absolute positions of the tiles of block b
PositionsOf(b) == {PosOf(b, i) : i \in 1..Len(b.tiles)}

\* the tile types of a side after a collision at a position where both
\* blocks had a tile: none, or the one TileType::collide returned
Returned(t) == IF t = NoTile THEN {} ELSE {t}

\* C30: Block::collide(moving, stationary) leaves both anchors as they
\* were; at an absolute position where both blocks had a tile each block
\* holds what TileType::collide returned for it (the tile, or none), the
\* stationary one at that same absolute position; at every other position
\* each block holds the tile it held.
C30_CollideFrame ==
  last.op = "collide" =>
    /\ blk.x = last.blk0.x /\ blk.y = last.blk0.y
    /\ pg.x = last.pg0.x /\ pg.y = last.pg0.y
    /\ \A p \in PositionsOf(last.blk0) \cup PositionsOf(last.pg0)
                \cup PositionsOf(blk) \cup PositionsOf(pg) :
         IF CountAt(last.blk0, p) = 1 /\ CountAt(last.pg0, p) = 1
         THEN \E t1 \in TypesAt(last.blk0, p), t2 \in TypesAt(last.pg0, p) :
                /\ TypesAt(blk, p) = Returned(TileType_collide(t1, t2)[1])
                /\ TypesAt(pg, p) = Returned(TileType_collide(t1, t2)[2])
                /\ CountAt(blk, p) <= 1
                /\ CountAt(pg, p) <= 1
         ELSE /\ TypesAt(blk, p) = TypesAt(last.blk0, p)
              /\ TypesAt(pg, p) = TypesAt(last.pg0, p)
              /\ CountAt(blk, p) = CountAt(last.blk0, p)
              /\ CountAt(pg, p) = CountAt(last.pg0, p)

\* a piece of three tiles met a stationary block held at another anchor in
\* two positions and not in a third; the stationary block holds a tile
\* that TileType::collide returned and three tiles the piece did not meet
C30_Witness ==
  /\ last.op = "collide"
  /\ <<last.blk0.x, last.blk0.y>> # <<last.pg0.x, last.pg0.y>>
  /\ <<last.pg0.x, last.pg0.y>> # <<0, 0>>
  /\ Len(last.blk0.tiles) = 3
  /\ Cardinality(PositionsOf(last.blk0) \cap PositionsOf(last.pg0)) = 2
  /\ pg # last.pg0
  /\ blk # last.blk0
  /\ \E p \in PositionsOf(last.blk0) \cap PositionsOf(last.pg0) :
       /\ TypesAt(pg, p) # TypesAt(last.pg0, p)
       /\ TypesAt(pg, p) # {}
  /\ \E p \in PositionsOf(last.pg0) \ PositionsOf(last.blk0) :
       TypesAt(pg, p) = TypesAt(last.pg0, p)

----------------------------------------------------------------------------
(* Specification of the play loop with the border in reach: the anchor of  *)
(* the falling piece may go onto the upper border, a tile of the piece may *)
(* be lost to the playfield, and every iteration begins with               *)
(* the painting of the blocks, which panics when a Field it addresses      *)
(* makes Grid::field_mut panic.                                            *)

\* the Grid of the play loop and the one of the preview, and the lengths of
\* their Vecs
PlayGrid == Grid_new(4 * pgw, 2 * pgh)
Gridlet == Grid_new(12, 6)
PlayGridLen == Len(PlayGrid.grid)
GridletLen == Len(Gridlet.grid)

\* Grid::field_mut(x, y) panics, for a Grid whose Vec has len Fields
field_mut_panics(g, len, x, y, build) ==
  LET i == field_idx(g, x, y, build)
  IN  i.panic \/ i.huge \/ i.idx >= len

\* Block::paint(grid) panics: Block::paint1 begins with
\* grid.clear(4 * x, 2 * y, 5, 3) for the tile at (x, y), and the walls and
\* decorations it paints afterwards are Fields of that rectangle
Block_paint_panics(b, g, len, build) ==
  \E i \in 1..Len(b.tiles) :
     \E n \in 0..14 :
        field_mut_panics(g, len, 4 * (b.x + b.tiles[i][1]) + (n \div 3),
                         2 * (b.y + b.tiles[i][2]) + (n % 3), build)

\* the painting of the border panics: the border is the same in every
\* iteration
BorderPanics ==
  [build \in Builds |-> Block_paint_panics(bd, PlayGrid, PlayGridLen, build)]

\* the painting at the head of an iteration panics
RenderPanics(build) ==
  \/ Block_paint_panics(pg, PlayGrid, PlayGridLen, build)
  \/ BorderPanics[build]
  \/ Block_paint_panics(blk, PlayGrid, PlayGridLen, build)
  \/ Block_paint_panics(next, Gridlet, GridletLen, build)

\* the iteration gets to the key in some build
CanRender == \E build \in Builds : ~RenderPanics(build)

\* the painting at the head of the iteration panics
RenderPanic ==
  /\ Playing
  /\ \E build \in Builds :
       /\ RenderPanics(build)
       /\ last' = [NoLast EXCEPT !.op = "render", !.pg0 = pg, !.blk0 = blk,
                                 !.next0 = next, !.pg1 = pg, !.blk1 = blk,
                                 !.build = build, !.panic = TRUE]
  /\ pc' = "panic"
  /\ UNCHANGED <<grid, pg, blk, next, score, multiplier>>

\* KEY_LEFT, KEY_RIGHT, KEY_UP, KEY_DOWN with the border in reach
WideMove(op, dx, dy) ==
  /\ Playing
  /\ CanRender
  /\ blk.x + dx \in 1..MaxWideX
  /\ blk.y + dy \in 0..MaxWideY
  /\ \E multOver \in MultOvers :
       LET r == try_move(moved(blk, dx, dy), blk, bd, pg)
       IN  Iteration(op, r.blk, next, r.pg, TRUE, FALSE, multOver)

WideLeft == WideMove("left", -1, 0)
WideRight == WideMove("right", 1, 0)
WideUp == WideMove("up", 0, -1)
WideDown == WideMove("down", 0, 1)

\* a piece that loses its Killer(1) to a Plain(0) of the playfield, and a
\* piece without a tile on its anchor beside a spillage
WideGames ==
  {[blk |-> new_from_shape(shape_d, <<Plain(0), Killer(1)>>),
    pg |-> MkBlock(0, 0, << <<3, 2, Plain(0)>> >>)],
   [blk |-> PieceOf(shape_8, Plain(0), Plain(0)),
    pg |-> MkBlock(0, 0, << <<3, 2, Spillage(Glue)>> >>)]}

\* a piece of one tile in a ring of Plain(0) and a Centerpiece(1)
RingPieces ==
  {PieceOf(shape_1x1, t, t) :
     t \in {Centerpiece(2), Whopper(1), Killer(1), Killer(2)}}

InitWide ==
  /\ score = MidGameScore
  /\ \/ \E g \in WideGames :
          /\ pg = g.pg
          /\ blk = moved_to(g.blk, 2, 2)
     \/ /\ pg = MkBlock(0, 0, RingTiles(0, 0, Centerpiece(1)))
        /\ blk \in {moved_to(p, 2, 2) : p \in RingPieces}
  /\ \A i \in 1..Len(blk.tiles) :
       blk.tiles[i][3] \in TileType_new_random(score)
  /\ next = moved_to(PieceOf(shape_l, Plain(0), Plain(0)), 1, 1)
  /\ ~block_collides(blk, bd, pg)
  /\ multiplier = 1
  /\ pc = "play"
  /\ last = NoLast
  /\ grid = NoGrid

NextWide ==
  \/ RenderPanic
  \/ WideLeft
  \/ WideRight
  \/ WideUp
  \/ WideDown
  \/ CanRender /\ KeyTab
  \/ CanRender /\ KeyBackspace
  \/ CanRender /\ KeyOther
  \/ CanRender /\ KeyQuit

SpecWide == InitWide /\ [][NextWide]_vars

----------------------------------------------------------------------------
(* Properties of the falling piece in the play loop *)

\* the keys of the play loop that leave the game running
GameOps == MoveOps \cup {"swap", "other"}

\* the cells of the border ring and of the area it encloses
RingArea == (0..(pgw - 1)) \X (0..(pgh - 1))

\* block b has a tile outside the border ring
Escaped(b) == \E i \in 1..Len(b.tiles) : PosOf(b, i) \notin RingArea

\* C31: after any move, rotation or swap of a game, accepted or rejected,
\* the falling piece has no tile on a border cell, no tile outside the
\* border ring and no tile on a cell occupied by a playfield tile, and the
\* drop the game loop attempts succeeds.
C31_PieceStaysInside ==
  last.op \in GameOps =>
    /\ ~Overlap(last.blk1, bd)
    /\ ~Escaped(last.blk1)
    /\ ~Overlap(last.blk1, last.pg1)
    /\ Block_drop(last.blk1, last.pg1, bd).ok

\* C31, the part that holds: after any key the falling piece has no tile on
\* a border cell or on a playfield tile, and its drop succeeds.
C31_NoOverlap ==
  last.op \in GameOps =>
    /\ ~Overlap(last.blk1, bd)
    /\ ~Overlap(last.blk1, last.pg1)
    /\ Block_drop(last.blk1, last.pg1, bd).ok

\* a rotation was accepted that put the one tile left of the piece in the
\* row above the border
C31_Escape ==
  /\ last.op = "turn"
  /\ ~Escaped(last.blk0)
  /\ Len(last.blk1.tiles) = 1
  /\ PosOf(last.blk1, 1)[2] = -1
  /\ blk = last.blk1

\* a drop succeeded for a piece that is whole and inside the ring
C31_WitnessDrop ==
  /\ last.op \in GameOps
  /\ last.dropped
  /\ Len(last.blk1.tiles) = 2
  /\ ~Escaped(last.blk1)

\* a tile whose count has run out: the next n - 1 would wrap
Counted(tt) == tt.k \in {"Killer", "Centerpiece", "Whopper"}
RunOut(tt) == Counted(tt) /\ tt.n = 0

\* the tile types block b holds
TypesOf(b) == {b.tiles[i][3] : i \in 1..Len(b.tiles)}

\* C32: no state of a game holds a Killer(0), Centerpiece(0) or Whopper(0)
\* in the falling piece, the preview or the playfield, before or after the
\* drop of an iteration, so that no count is decremented below zero.
C32_NoZeroCount ==
  \A b \in {blk, next, pg, last.blk1, last.pg1} :
     \A tt \in TypesOf(b) : ~RunOut(tt)

\* a Killer(2) of the falling piece was counted down to Killer(1) by a
\* playfield tile
C32_Witness ==
  /\ last.op \in MoveOps
  /\ Killer(2) \in TypesOf(last.blk0)
  /\ Killer(1) \in TypesOf(blk)
  /\ Len(pg.tiles) < Len(last.pg0.tiles)

\* a Centerpiece(2) was counted down to Centerpiece(1) by an explosion that
\* removed a Centerpiece(1)
C32_WitnessExplode ==
  /\ last.dropped
  /\ Centerpiece(2) \in TypesOf(last.blk1)
  /\ Centerpiece(1) \in TypesOf(last.pg0)
  /\ TypesOf(pg) = {Centerpiece(1)}
  /\ Len(pg.tiles) = 1

\* the preview of the iteration placed at the anchor of the falling piece
SwapProposal == [last.next0 EXCEPT !.x = last.blk0.x, !.y = last.blk0.y]

\* the swap proposal has a tile on a border cell or on a playfield tile
SwapBlocked == Overlap(SwapProposal, bd) \/ Overlap(SwapProposal, last.pg0)

\* C33: swap-with-next is all-or-nothing and applies no tile chemistry: if
\* the preview placed at the anchor of the falling piece overlaps the border
\* or any playfield tile, Spillage included, the falling piece, the preview
\* and the playfield are unchanged; otherwise the preview becomes the
\* falling piece at that anchor, the old falling piece becomes the preview
\* anchored at (1,1), and the playfield is unchanged.
C33_SwapAllOrNothing ==
  last.op = "swap" =>
    /\ ~last.dropped
    /\ pg = last.pg0
    /\ IF SwapBlocked
       THEN blk = last.blk0 /\ next = last.next0
       ELSE /\ blk = SwapProposal
            /\ next = [last.blk0 EXCEPT !.x = 1, !.y = 1]

\* a swap was rejected over a Spillage of the playfield alone
C33_Witness ==
  /\ last.op = "swap"
  /\ ~Overlap(SwapProposal, bd)
  /\ \E i \in 1..Len(SwapProposal.tiles) :
       TypesAt(last.pg0, PosOf(SwapProposal, i)) = {Spillage(Glue)}
  /\ blk = last.blk0
  /\ next = last.next0

\* a swap was rejected by the border alone
C33_WitnessBorder ==
  /\ last.op = "swap"
  /\ Overlap(SwapProposal, bd)
  /\ ~Overlap(SwapProposal, last.pg0)
  /\ blk = last.blk0

\* a swap was accepted away from (1,1), beside a playfield tile
C33_WitnessAccepted ==
  /\ last.op = "swap"
  /\ ~SwapBlocked
  /\ last.blk0.x = 2
  /\ last.blk0.y = 2
  /\ last.pg0.tiles # <<>>
  /\ blk # last.blk0
  /\ next.x = 1
  /\ next.y = 1
  /\ next.tiles = last.blk0.tiles

\* the preview the drop of the iteration found: a swap is the one key that
\* changes it
PreviewAtDrop ==
  IF last.op = "swap" /\ ~SwapBlocked
  THEN [last.blk0 EXCEPT !.x = 1, !.y = 1]
  ELSE last.next0

\* after a successful drop the preview is the falling piece anchored at
\* (2,2) and the preview is a new piece anchored at (1,1)
NextPiece ==
  last.dropped =>
    /\ blk = [PreviewAtDrop EXCEPT !.x = 2, !.y = 2]
    /\ next.x = 1
    /\ next.y = 1
    /\ \E p \in Block_new_random(score) : next.tiles = p.tiles

\* the game is over exactly when the falling piece a drop brought overlaps
\* the border or a playfield tile
OverWhenBlocked ==
  pc = "over" <=> (last.dropped /\ (Overlap(blk, bd) \/ Overlap(blk, pg)))

\* C34: after every successful drop the preview becomes the falling piece
\* anchored at (2,2) and a new preview is generated; the game ends exactly
\* when that new falling piece overlaps the border or a playfield tile, and
\* the play loop ends in no other way except the quit key.
C34_DropThenOverOrQuit ==
  /\ NextPiece
  /\ OverWhenBlocked
  /\ pc \in {"play", "over", "quit"}
  /\ pc = "quit" <=> last.op = "quit"

\* C34, the part that holds: the piece after a drop, the end of the game by
\* a blocked piece and the end by the quit key.
C34_NextPieceOrOver ==
  /\ NextPiece
  /\ OverWhenBlocked
  /\ pc = "quit" <=> last.op = "quit"

\* the play loop ended neither by the quit key nor by a blocked piece: the
\* painting of a falling piece with a tile above the border ring panicked,
\* as it does in every build
C34_Panic ==
  /\ pc = "panic"
  /\ last.op = "render"
  /\ ~Escaped(pg)
  /\ Escaped(blk)
  /\ \A build \in Builds :
       Block_paint_panics(blk, PlayGrid, PlayGridLen, build)

\* a drop brought a piece that overlaps a playfield tile: the game is over
C34_WitnessOver ==
  /\ pc = "over"
  /\ last.dropped
  /\ Overlap(blk, pg)
  /\ blk.x = 2
  /\ blk.y = 2
  /\ blk.tiles = last.next0.tiles

====
